---- MODULE Spec2Model ----
(***************************************************************************)
(* Model of the chunked summarization pipeline of the YouTube transcript   *)
(* summarizer (src/modules/summarize.py).                                  *)
(*                                                                         *)
(* Strings are sequences of one-character strings.  The character budget   *)
(* MAX_CHUNK_CHARS (12000 in the source) is scaled down so that texts of a *)
(* few characters already exceed it; every comparison against it is kept   *)
(* exactly as in the source.                                               *)
(***************************************************************************)
EXTENDS Integers, Sequences, FiniteSets, TLC

VARIABLES
    transcript,       \* the text handed to summarize_transcript / chunk_text
    budget,           \* the max_chars argument of chunk_text
    api_key,          \* TRUE iff get_secret("OPENAI_API_KEY") is truthy
    has_callback,     \* TRUE iff a progress_callback was supplied
    pc,               \* position of the running function
    chunks,           \* the list returned by chunk_text
    i,                \* number of loop iterations completed (enumerate index)
    chunk_summaries,  \* the list chunk_summaries of summarize_transcript
    trace,            \* progress notifications and backend calls, in order
    result,           \* the returned (success, summary_or_error) tuple
    has_streamlit,    \* HAS_STREAMLIT
    st_secrets,       \* st.secrets: whether reading it raises, and its entries
    environ,          \* os.environ
    secret_out,       \* the value returned by get_secret
    max_retries,      \* the max_retries argument of fetch_transcript
    attempt,          \* the loop variable of fetch_transcript
    transcript_obj,   \* the local variable transcript of fetch_transcript
    last_error,       \* the local variable last_error of fetch_transcript
    fetch_trace,      \* transcript API calls and sleeps, in order
    fetch_result,     \* the returned (success, message, transcript) tuple
    validated,        \* (is_valid, message, video_id) in get_transcript
    get_result,       \* the tuple returned by get_transcript
    export_args,      \* the arguments of export_summary
    exported,         \* what export_summary returned or raised
    session,          \* st.session_state of the app
    shown             \* the feedback of the last action: st.success / st.error

summarizeVars == <<transcript, budget, api_key, has_callback, pc, chunks, i,
                   chunk_summaries, trace, result>>

secretVars == <<has_streamlit, st_secrets, environ, secret_out>>

fetchVars == <<max_retries, attempt, transcript_obj, last_error, fetch_trace,
               fetch_result, validated, get_result>>

exportVars == <<export_args, exported>>

appVars == <<session, shown>>

vars == <<summarizeVars, secretVars, fetchVars, exportVars, appVars>>

----------------------------------------------------------------------------
(* Bounds of the model *)

MaxTextLen == 5
MaxBudget == 3
MaxTranscriptLen == 5

(* longest format argument of export_summary *)
MaxFormatLen == 3

(* Scaled model value of MAX_CHUNK_CHARS = 12000 *)
MAX_CHUNK_CHARS == 2

----------------------------------------------------------------------------
(* Characters and strings *)

Whitespace == {" ", "\n"}

Alphabet == {"a", ".", "?", "!", " ", "\n", "|"}

TranscriptAlphabet == {"a", ".", " "}

StringsOver(A, n) == UNION {[1..k -> A] : k \in 0..n}

(* str.strip(): leading and trailing whitespace removed *)
RECURSIVE LStrip(_)
LStrip(s) ==
    IF s # <<>> /\ Head(s) \in Whitespace THEN LStrip(Tail(s)) ELSE s

RECURSIVE RStrip(_)
RStrip(s) ==
    IF s # <<>> /\ s[Len(s)] \in Whitespace
    THEN RStrip(SubSeq(s, 1, Len(s) - 1))
    ELSE s

Strip(s) == RStrip(LStrip(s))

(* str.replace(old, new) for a two-character old: left to right, *)
(* non-overlapping occurrences                                    *)
RECURSIVE Replace(_, _, _)
Replace(s, old, new) ==
    IF Len(s) < 2 THEN s
    ELSE IF SubSeq(s, 1, 2) = old
         THEN new \o Replace(SubSeq(s, 3, Len(s)), old, new)
         ELSE <<Head(s)>> \o Replace(Tail(s), old, new)

(* str.split(sep) for a one-character sep: empty pieces are kept *)
RECURSIVE Split(_, _)
Split(s, sep) ==
    IF \A k \in 1..Len(s) : s[k] # sep THEN <<s>>
    ELSE LET p == CHOOSE k \in 1..Len(s) :
                      s[k] = sep /\ \A j \in 1..(k - 1) : s[j] # sep
         IN  <<SubSeq(s, 1, p - 1)>> \o Split(SubSeq(s, p + 1, Len(s)), sep)

(* line 132: the sentence list of chunk_text *)
Sentences(text) ==
    Split(Replace(Replace(Replace(text, <<"?", " ">>, <<"?", "|">>),
                          <<"!", " ">>, <<"!", "|">>),
                  <<".", " ">>, <<".", "|">>),
          "|")


(* variant of FitsBudget: strict comparison *)
FitsBudgetStrict(text, max_chars) == Len(text) < max_chars

(* line 125: the fast-path test *)
FitsBudget(text, max_chars) == Len(text) <= max_chars

(* line 140: adding this sentence would exceed the limit *)
WouldExceed(current_chunk, sentence, max_chars) ==
    Len(current_chunk) + Len(sentence) + 1 > max_chars

(* lines 141-142 and 148-149: seal the running buffer if it is not empty *)
Seal(chunks_, current_chunk) ==
    IF current_chunk # <<>> THEN Append(chunks_, Strip(current_chunk))
    ELSE chunks_

(* line 145 *)
Extend(current_chunk, sentence) ==
    IF current_chunk # <<>> THEN current_chunk \o <<" ">> \o sentence
    ELSE sentence

(* lines 134-151: the loop over the sentences and the final seal *)
RECURSIVE ChunkLoop(_, _, _, _)
ChunkLoop(sentences, chunks_, current_chunk, max_chars) ==
    IF sentences = <<>> THEN Seal(chunks_, current_chunk)
    ELSE LET sentence == Strip(Head(sentences))
         IN  IF sentence = <<>>
             THEN ChunkLoop(Tail(sentences), chunks_, current_chunk, max_chars)
             ELSE IF WouldExceed(current_chunk, sentence, max_chars)
                  THEN ChunkLoop(Tail(sentences), Seal(chunks_, current_chunk),
                                 sentence, max_chars)
                  ELSE ChunkLoop(Tail(sentences), chunks_,
                                 Extend(current_chunk, sentence), max_chars)

(* lines 114-151 *)
chunk_text(text, max_chars) ==
    IF FitsBudget(text, max_chars) THEN <<text>>
    ELSE ChunkLoop(Sentences(text), <<>>, <<>>, max_chars)

(* None *)
None == "<None>"

(* transcript = None in fetch_transcript *)
NoTranscript ==
    [present |-> FALSE, language_preferred |-> FALSE,
     is_translatable |-> FALSE, translated |-> FALSE]

(* last_error = None in fetch_transcript *)
NoError == [present |-> FALSE, msg |-> <<>>]

(* the transcript text None of a result tuple *)
NoText == [present |-> FALSE, text |-> <<>>]

(* fetch_transcript has not returned *)
NoFetchResult ==
    [success |-> FALSE, message |-> "none", detail |-> <<>>, chars |-> 0,
     transcript |-> NoText]

(* export_summary has neither returned nor raised *)
NotExported ==
    [returned |-> FALSE, raised |-> "none", bytes |-> <<>>, filename |-> <<>>,
     mime |-> ""]

(* get_transcript is not running: fetch_transcript is called directly *)
NotValidated == [called |-> FALSE, is_valid |-> FALSE, message |-> "", video_id |-> None]

(* get_transcript has not returned *)
NoGetResult ==
    [returned |-> FALSE, success |-> FALSE, message |-> "none", detail |-> <<>>,
     chars |-> 0, transcript |-> NoText, video_id |-> None]

(* no summary is stored: st.session_state.summary = None.  A stored summary
   is the text the model answered together with the transcript that
   summarize_transcript was given *)
NoSummary == [set |-> FALSE, of |-> NoText, text |-> ""]

(* st.session_state.transcript_message = None *)
NoMessage == [present |-> FALSE, message |-> "", detail |-> <<>>, chars |-> 0]

(* lines 200-208: the session state of a new session *)
NewSession ==
    [transcript |-> NoText, summary |-> NoSummary, video_id |-> None,
     transcript_message |-> NoMessage]

(* no rerun of the script has happened: the widget values of a rerun (the
   button clicked, the URL typed) and the st.success / st.error it showed *)
NothingShown ==
    [action |-> "none", url |-> <<>>, level |-> "none", text |-> "",
     detail |-> <<>>]

(* the variables of the functions that are not running *)
SecretsIdle ==
    /\ has_streamlit = FALSE
    /\ st_secrets = [raises |-> TRUE, store |-> <<>>]
    /\ environ = <<>>
    /\ secret_out = None

FetchIdle ==
    /\ max_retries = 0
    /\ attempt = 0
    /\ transcript_obj = NoTranscript
    /\ last_error = NoError
    /\ fetch_trace = <<>>
    /\ fetch_result = NoFetchResult
    /\ validated = NotValidated
    /\ get_result = NoGetResult

AppIdle ==
    /\ session = NewSession
    /\ shown = NothingShown

ExportIdle ==
    /\ export_args = [summary |-> <<>>, format |-> <<>>, video_id |-> None]
    /\ exported = NotExported

----------------------------------------------------------------------------
(* Specification of chunk_text alone: the inputs are drawn in InitChunk    *)

NoResult == [success |-> FALSE, kind |-> "none", summary |-> "", detail |-> <<>>]

InitChunk ==
    /\ transcript \in StringsOver(Alphabet, MaxTextLen)
    /\ budget \in 1..MaxBudget
    /\ api_key = TRUE
    /\ has_callback = FALSE
    /\ pc = "chunk_call"
    /\ chunks = <<>>
    /\ i = 0
    /\ chunk_summaries = <<>>
    /\ trace = <<>>
    /\ result = NoResult
    /\ SecretsIdle /\ FetchIdle /\ ExportIdle /\ AppIdle

ChunkText ==
    /\ pc = "chunk_call"
    /\ chunks' = chunk_text(transcript, budget)
    /\ pc' = "chunk_ret"
    /\ UNCHANGED <<secretVars, fetchVars, exportVars, appVars>>
    /\ UNCHANGED <<transcript, budget, api_key, has_callback, i,
                   chunk_summaries, trace, result>>

NextChunk == ChunkText

SpecChunk == InitChunk /\ [][NextChunk]_vars

----------------------------------------------------------------------------
(* The LLM backend: every call either returns a summary or raises an       *)
(* exception whose message is a sequence of words                          *)

Summaries == {"S1", "S2"}

Vocabulary == {"API_KEY", "Rate_Limit", "context_length", "maximum context",
               "timeout"}

ErrorMessages == Vocabulary \X Vocabulary

(* str.lower() on one word *)
LowerWord(w) ==
    CASE w = "API_KEY" -> "api_key"
      [] w = "Rate_Limit" -> "rate_limit"
      [] OTHER -> w

LowerMsg(msg) == [k \in DOMAIN msg |-> LowerWord(msg[k])]

(* needle in msg *)
Contains(msg, needle) == \E k \in DOMAIN msg : msg[k] = needle

Success(summary) ==
    [success |-> TRUE, kind |-> "summary", summary |-> summary, detail |-> <<>>]

Failure(kind, detail) ==
    [success |-> FALSE, kind |-> kind, summary |-> "", detail |-> detail]

(* variant of ClassifySingleShot: the rate-limit test comes first *)
ClassifyRateLimitFirst(error_msg) ==
    IF Contains(LowerMsg(error_msg), "rate_limit")
    THEN Failure("Rate limit exceeded", <<>>)
    ELSE IF Contains(LowerMsg(error_msg), "api_key")
    THEN Failure("Invalid OpenAI API key", <<>>)
    ELSE IF \/ Contains(LowerMsg(error_msg), "context_length")
            \/ Contains(LowerMsg(error_msg), "maximum context")
    THEN Failure("Transcript too long for the model", <<>>)
    ELSE Failure("Error calling LLM API", error_msg)

(* lines 261-269: the except branch of the direct call *)
ClassifySingleShot(error_msg) ==
    IF Contains(LowerMsg(error_msg), "api_key")
    THEN Failure("Invalid OpenAI API key", <<>>)
    ELSE IF Contains(LowerMsg(error_msg), "rate_limit")
    THEN Failure("Rate limit exceeded", <<>>)
    ELSE IF \/ Contains(LowerMsg(error_msg), "context_length")
            \/ Contains(LowerMsg(error_msg), "maximum context")
    THEN Failure("Transcript too long for the model", <<>>)
    ELSE Failure("Error calling LLM API", error_msg)

(* lines 179-180: the except branch of summarize_chunk *)
ChunkFailure(e) == Failure("Error summarizing chunk", e)


(* variant of MetaFailure: the error text returned with the success flag *)
MetaFailureAsSuccess(e) ==
    [success |-> TRUE, kind |-> "Error creating meta-summary", summary |-> "",
     detail |-> e]

(* lines 213-214: the except branch of create_meta_summary *)
MetaFailure(e) == Failure("Error creating meta-summary", e)


(* variant of SectionNumber: the enumerate index used as it is *)
SectionNumberZeroBased(idx) == idx

(* line 196: the 1-based label of the section built from enumerate index idx *)
SectionNumber(idx) == idx + 1

(* line 196: f"Section {i+1} Summary:\n{summary}" *)
Section(idx, summary) ==
    << [tok |-> "Section n Summary:", n |-> SectionNumber(idx), s |-> ""],
       [tok |-> "text", n |-> 0, s |-> summary] >>

Delimiter == [tok |-> "---", n |-> 0, s |-> ""]

(* lines 195-198: "\n\n---\n\n".join(...) over enumerate(chunk_summaries) *)
RECURSIVE JoinSections(_, _)
JoinSections(summaries, idx) ==
    IF idx >= Len(summaries) THEN <<>>
    ELSE Section(idx, summaries[idx + 1])
         \o (IF idx + 1 < Len(summaries) THEN <<Delimiter>> ELSE <<>>)
         \o JoinSections(summaries, idx + 1)

CombinedSummaries(summaries) == JoinSections(summaries, 0)

(* line 253: the user message of the direct call *)
FullPrompt(text) == <<"Please summarize the following transcript:">> \o text

----------------------------------------------------------------------------
(* Events recorded in trace *)

ProgressEvent(msg, index, total) ==
    [type |-> "progress", what |-> msg, index |-> index, total |-> total,
     user |-> <<>>, ok |-> TRUE, reply |-> "", error |-> <<>>]

CallOk(system, user, reply) ==
    [type |-> "call", what |-> system, index |-> 0, total |-> 0,
     user |-> user, ok |-> TRUE, reply |-> reply, error |-> <<>>]

CallFailed(system, user, e) ==
    [type |-> "call", what |-> system, index |-> 0, total |-> 0,
     user |-> user, ok |-> FALSE, reply |-> "", error |-> e]

(* variant of Notify: with an observer, the notification also reaches the
   backend as a call *)
NotifyAsCall(msg, index, total) ==
    IF has_callback
    THEN <<ProgressEvent(msg, index, total), CallOk(msg, <<>>, "")>>
    ELSE <<>>

(* if progress_callback: progress_callback(...) *)
Notify(msg, index, total) ==
    IF has_callback THEN <<ProgressEvent(msg, index, total)>> ELSE <<>>

----------------------------------------------------------------------------
(* summarize_transcript *)

Init ==
    /\ transcript \in StringsOver(TranscriptAlphabet, MaxTranscriptLen)
    /\ budget = MAX_CHUNK_CHARS
    /\ api_key \in BOOLEAN
    /\ has_callback \in BOOLEAN
    /\ pc = "Idle"
    /\ chunks = <<>>
    /\ i = 0
    /\ chunk_summaries = <<>>
    /\ trace = <<>>
    /\ result = NoResult
    /\ SecretsIdle /\ FetchIdle /\ ExportIdle /\ AppIdle


(* variant of NoClient: the missing client is noticed only after chunking *)
NoClientAfterChunking ==
    /\ pc = "Idle"
    /\ ~api_key
    /\ chunks' = chunk_text(transcript, MAX_CHUNK_CHARS)
    /\ result' = Failure("OpenAI API key not configured", <<>>)
    /\ pc' = "Failed"
    /\ UNCHANGED <<secretVars, fetchVars, exportVars, appVars>>
    /\ UNCHANGED <<transcript, budget, api_key, has_callback, i,
                   chunk_summaries, trace>>

(* lines 233-236: no client *)
NoClient ==
    /\ pc = "Idle"
    /\ ~api_key
    /\ result' = Failure("OpenAI API key not configured", <<>>)
    /\ pc' = "Failed"
    /\ UNCHANGED <<secretVars, fetchVars, exportVars, appVars>>
    /\ UNCHANGED <<transcript, budget, api_key, has_callback, chunks, i,
                   chunk_summaries, trace>>

(* lines 233-238: client and model obtained *)
GetClient ==
    /\ pc = "Idle"
    /\ api_key
    /\ pc' = "Chunking"
    /\ UNCHANGED <<secretVars, fetchVars, exportVars, appVars>>
    /\ UNCHANGED <<transcript, budget, api_key, has_callback, chunks, i,
                   chunk_summaries, trace, result>>


(* variant of IsSingleChunk: up to two chunks summarized directly *)
IsSingleChunkUpToTwo(chunks_) == Len(chunks_) <= 2

(* line 243: the routing test *)
IsSingleChunk(chunks_) == Len(chunks_) = 1

(* lines 241-243 and 271-273 *)
Chunking ==
    /\ pc = "Chunking"
    /\ chunks' = chunk_text(transcript, MAX_CHUNK_CHARS)
    /\ pc' = IF IsSingleChunk(chunks') THEN "SingleShot"
             ELSE "SegmentSummarizing"
    /\ i' = 0
    /\ chunk_summaries' = <<>>
    /\ UNCHANGED <<secretVars, fetchVars, exportVars, appVars>>
    /\ UNCHANGED <<transcript, budget, api_key, has_callback, trace, result>>

(* lines 245-259: the direct call succeeds *)
SingleShotOk ==
    /\ pc = "SingleShot"
    /\ \E s \in Summaries :
           /\ trace' = trace \o Notify("Generating summary...", 0, 0)
                  \o <<CallOk("SUMMARY_SYSTEM_PROMPT", FullPrompt(transcript), s)>>
           /\ result' = Success(s)
    /\ pc' = "Done"
    /\ UNCHANGED <<secretVars, fetchVars, exportVars, appVars>>
    /\ UNCHANGED <<transcript, budget, api_key, has_callback, chunks, i,
                   chunk_summaries>>

(* lines 245-257 and 261-269: the direct call raises *)
SingleShotFail ==
    /\ pc = "SingleShot"
    /\ \E e \in ErrorMessages :
           /\ trace' = trace \o Notify("Generating summary...", 0, 0)
                  \o <<CallFailed("SUMMARY_SYSTEM_PROMPT",
                                  FullPrompt(transcript), e)>>
           /\ result' = ClassifySingleShot(e)
    /\ pc' = "Failed"
    /\ UNCHANGED <<secretVars, fetchVars, exportVars, appVars>>
    /\ UNCHANGED <<transcript, budget, api_key, has_callback, chunks, i,
                   chunk_summaries>>


(* variant of SegmentOk: the notification is emitted after the call *)
SegmentOkNotifiesAfter ==
    /\ pc = "SegmentSummarizing"
    /\ i < Len(chunks)
    /\ \E s \in Summaries :
           /\ trace' = trace
                  \o <<CallOk("CHUNK_SUMMARY_PROMPT", chunks[i + 1], s)>>
                  \o Notify("Summarizing section", i + 1, Len(chunks))
           /\ chunk_summaries' = Append(chunk_summaries, s)
    /\ i' = i + 1
    /\ UNCHANGED <<secretVars, fetchVars, exportVars, appVars>>
    /\ UNCHANGED <<transcript, budget, api_key, has_callback, pc, chunks,
                   result>>

(* lines 275-284 with summarize_chunk 166-177: one iteration, call succeeds *)
SegmentOk ==
    /\ pc = "SegmentSummarizing"
    /\ i < Len(chunks)
    /\ \E s \in Summaries :
           /\ trace' = trace
                  \o Notify("Summarizing section", i + 1, Len(chunks))
                  \o <<CallOk("CHUNK_SUMMARY_PROMPT", chunks[i + 1], s)>>
           /\ chunk_summaries' = Append(chunk_summaries, s)
    /\ i' = i + 1
    /\ UNCHANGED <<secretVars, fetchVars, exportVars, appVars>>
    /\ UNCHANGED <<transcript, budget, api_key, has_callback, pc, chunks,
                   result>>


(* variant of SegmentFail: the failure is recorded and the loop goes on *)
SegmentFailContinues ==
    /\ pc = "SegmentSummarizing"
    /\ i < Len(chunks)
    /\ \E e \in ErrorMessages :
           /\ trace' = trace
                  \o Notify("Summarizing section", i + 1, Len(chunks))
                  \o <<CallFailed("CHUNK_SUMMARY_PROMPT", chunks[i + 1], e)>>
           /\ result' = ChunkFailure(e)
    /\ chunk_summaries' = Append(chunk_summaries, "")
    /\ i' = i + 1
    /\ UNCHANGED <<secretVars, fetchVars, exportVars, appVars>>
    /\ UNCHANGED <<transcript, budget, api_key, has_callback, pc, chunks>>

(* lines 275-282 with summarize_chunk 179-180: one iteration, call raises *)
SegmentFail ==
    /\ pc = "SegmentSummarizing"
    /\ i < Len(chunks)
    /\ \E e \in ErrorMessages :
           /\ trace' = trace
                  \o Notify("Summarizing section", i + 1, Len(chunks))
                  \o <<CallFailed("CHUNK_SUMMARY_PROMPT", chunks[i + 1], e)>>
           /\ result' = ChunkFailure(e)
    /\ pc' = "Failed"
    /\ UNCHANGED <<secretVars, fetchVars, exportVars, appVars>>
    /\ UNCHANGED <<transcript, budget, api_key, has_callback, chunks, i,
                   chunk_summaries>>


(* variant of LoopExit: the exit test is off by one and never succeeds *)
LoopExitOffByOne ==
    /\ pc = "SegmentSummarizing"
    /\ i > Len(chunks)
    /\ trace' = trace \o Notify("Creating final summary...", 0, 0)
    /\ pc' = "Synthesizing"
    /\ UNCHANGED <<secretVars, fetchVars, exportVars, appVars>>
    /\ UNCHANGED <<transcript, budget, api_key, has_callback, chunks, i,
                   chunk_summaries, result>>

(* lines 286-288: the loop is exhausted *)
LoopExit ==
    /\ pc = "SegmentSummarizing"
    /\ i = Len(chunks)
    /\ trace' = trace \o Notify("Creating final summary...", 0, 0)
    /\ pc' = "Synthesizing"
    /\ UNCHANGED <<secretVars, fetchVars, exportVars, appVars>>
    /\ UNCHANGED <<transcript, budget, api_key, has_callback, chunks, i,
                   chunk_summaries, result>>

(* line 290 with create_meta_summary 195-211: the synthesis call succeeds *)
SynthOk ==
    /\ pc = "Synthesizing"
    /\ \E s \in Summaries :
           /\ trace' = Append(trace, CallOk("META_SUMMARY_PROMPT",
                                  CombinedSummaries(chunk_summaries), s))
           /\ result' = Success(s)
    /\ pc' = "Done"
    /\ UNCHANGED <<secretVars, fetchVars, exportVars, appVars>>
    /\ UNCHANGED <<transcript, budget, api_key, has_callback, chunks, i,
                   chunk_summaries>>


(* variant of SynthFail: a failed synthesis call is attempted again *)
SynthFailRetries ==
    /\ pc = "Synthesizing"
    /\ \E e \in ErrorMessages :
           /\ trace' = Append(trace, CallFailed("META_SUMMARY_PROMPT",
                                  CombinedSummaries(chunk_summaries), e))
           /\ result' = MetaFailure(e)
    /\ UNCHANGED <<secretVars, fetchVars, exportVars, appVars>>
    /\ UNCHANGED <<transcript, budget, api_key, has_callback, pc, chunks, i,
                   chunk_summaries>>

(* line 290 with create_meta_summary 195-209, 213-214: the call raises *)
SynthFail ==
    /\ pc = "Synthesizing"
    /\ \E e \in ErrorMessages :
           /\ trace' = Append(trace, CallFailed("META_SUMMARY_PROMPT",
                                  CombinedSummaries(chunk_summaries), e))
           /\ result' = MetaFailure(e)
    /\ pc' = "Failed"
    /\ UNCHANGED <<secretVars, fetchVars, exportVars, appVars>>
    /\ UNCHANGED <<transcript, budget, api_key, has_callback, chunks, i,
                   chunk_summaries>>

Next ==
    \/ NoClient
    \/ GetClient
    \/ Chunking
    \/ SingleShotOk
    \/ SingleShotFail
    \/ SegmentOk
    \/ SegmentFail
    \/ LoopExit
    \/ SynthOk
    \/ SynthFail

Spec == Init /\ [][Next]_vars

----------------------------------------------------------------------------
(* Operators used to state the properties of summarize_transcript *)

IsCall(e) == e.type = "call"

Calls == SelectSeq(trace, IsCall)

Terminal == pc \in {"Done", "Failed"}

AllCallsOk == \A k \in 1..Len(Calls) : Calls[k].ok

(* the error taxonomy a returned failure belongs to *)
Taxonomy(r) ==
    CASE r.kind = "Invalid OpenAI API key" -> "credential"
      [] r.kind = "Rate limit exceeded" -> "rate-limit"
      [] r.kind = "Transcript too long for the model" -> "context-length"
      [] OTHER -> "generic"

(* the first class, in priority order, that a backend message matches *)
FirstMatch(e) ==
    IF Contains(LowerMsg(e), "api_key") THEN "credential"
    ELSE IF Contains(LowerMsg(e), "rate_limit") THEN "rate-limit"
    ELSE IF \/ Contains(LowerMsg(e), "context_length")
            \/ Contains(LowerMsg(e), "maximum context")
    THEN "context-length"
    ELSE "generic"

----------------------------------------------------------------------------
(* C1: routing.  When the chunker returns exactly one segment, exactly one *)
(* backend call is made, the full-summary one, and no segment or synthesis *)
(* call; when it returns N > 1 segments and every call succeeds, exactly N *)
(* segment calls are made in index order 1..N, then exactly one synthesis  *)
(* call, and nothing after it.                                             *)
C1_Routing ==
    /\ Len(chunks) = 1 =>
           /\ \A k \in 1..Len(Calls) : Calls[k].what = "SUMMARY_SYSTEM_PROMPT"
           /\ Len(Calls) <= 1
           /\ Terminal =>
                  /\ Len(Calls) = 1
                  /\ Calls[1].user = FullPrompt(transcript)
    /\ (Terminal /\ Len(chunks) > 1 /\ AllCallsOk) =>
           /\ Len(Calls) = Len(chunks) + 1
           /\ \A k \in 1..Len(chunks) :
                  /\ Calls[k].what = "CHUNK_SUMMARY_PROMPT"
                  /\ Calls[k].user = chunks[k]
           /\ Calls[Len(chunks) + 1].what = "META_SUMMARY_PROMPT"
    /\ Terminal => ~ENABLED Next

(* a successful run over three segments *)
C1_Witness ==
    /\ pc = "Done"
    /\ Len(chunks) = 3
    /\ Len(Calls) = 4

(* C2: fail-fast.  If the call for segment k fails, no call is made for    *)
(* any later segment, no synthesis call is made, and the function returns  *)
(* failure carrying the error of segment k, without any partial summary.   *)
C2_FailFast ==
    \A k \in 1..Len(Calls) :
        (Calls[k].what = "CHUNK_SUMMARY_PROMPT" /\ ~Calls[k].ok) =>
            /\ k = Len(Calls)
            /\ \A j \in 1..Len(Calls) : Calls[j].what = "CHUNK_SUMMARY_PROMPT"
            /\ Calls[k].user = chunks[k]
            /\ pc = "Failed"
            /\ ~result.success
            /\ result.summary = ""
            /\ result.kind = "Error summarizing chunk"
            /\ result.detail = Calls[k].error

(* segment 2 of 3 fails *)
C2_Witness ==
    /\ pc = "Failed"
    /\ Len(chunks) = 3
    /\ Len(Calls) = 2
    /\ Calls[1].ok
    /\ ~Calls[2].ok

(* C3: whenever a backend call fails, in any path, the error returned is   *)
(* the first classification matching the backend message in the priority   *)
(* order credential > rate-limit > context-length > generic.               *)
C3_PriorityClassification ==
    \A k \in 1..Len(Calls) :
        ~Calls[k].ok =>
            /\ pc = "Failed"
            /\ Taxonomy(result) = FirstMatch(Calls[k].error)

(* The same statement restricted to the direct call *)
C3_HoldsInSingleShot ==
    Len(chunks) = 1 => C3_PriorityClassification

(* C4: every transcript longer than the chunk budget is summarized by the  *)
(* multi-segment path (segment calls followed by one synthesis call),      *)
(* never by a single direct call.                                          *)
C4_LongTranscriptMultiSegment ==
    Len(transcript) > MAX_CHUNK_CHARS =>
        /\ \A k \in 1..Len(Calls) : Calls[k].what # "SUMMARY_SYSTEM_PROMPT"
        /\ pc = "Done" =>
               /\ Len(Calls) >= 2
               /\ Calls[Len(Calls)].what = "META_SUMMARY_PROMPT"
               /\ \A k \in 1..(Len(Calls) - 1) :
                      Calls[k].what = "CHUNK_SUMMARY_PROMPT"

(* C5: the synthesis payload built from the segment summaries s_1..s_N     *)
(* contains them in the original order, the i-th labelled "Section i       *)
(* Summary" with i counted from 1, a delimiter between consecutive         *)
(* sections; section i carries the summary of segment i.                   *)
C5_SynthesisPayload ==
    \A k \in 1..Len(Calls) :
        Calls[k].what = "META_SUMMARY_PROMPT" =>
            /\ k = Len(chunks) + 1
            /\ Len(Calls[k].user) = IF k = 1 THEN 0 ELSE 3 * (k - 1) - 1
            /\ \A j \in 1..(k - 1) :
                   /\ Calls[j].what = "CHUNK_SUMMARY_PROMPT"
                   /\ Calls[j].user = chunks[j]
                   /\ Calls[k].user[3 * j - 2].tok = "Section n Summary:"
                   /\ Calls[k].user[3 * j - 2].n = j
                   /\ Calls[k].user[3 * j - 1].tok = "text"
                   /\ Calls[k].user[3 * j - 1].s = Calls[j].reply
                   /\ j < k - 1 => Calls[k].user[3 * j].tok = "---"

(* a synthesis call over three segments whose summaries differ *)
C5_Witness ==
    /\ Len(Calls) = 4
    /\ Calls[4].what = "META_SUMMARY_PROMPT"
    /\ Calls[1].reply # Calls[2].reply
    /\ Calls[2].reply = Calls[3].reply

(* C10: the orchestrator never swallows a failure: summarize_transcript    *)
(* returns success if and only if every backend call it issued in that run *)
(* succeeded; a run in which any backend call failed returns failure.      *)
C10_SuccessIffAllCallsOk ==
    /\ Terminal => (result.success <=> AllCallsOk)
    /\ ~AllCallsOk => (pc = "Failed" /\ ~result.success)

(* C10 as amended: success if and only if a credential is configured and   *)
(* every backend call issued in the run succeeded; a run in which any      *)
(* backend call failed returns failure.                                    *)
C10_SuccessIffClientAndAllCallsOk ==
    /\ Terminal => (result.success <=> (api_key /\ AllCallsOk))
    /\ Terminal => (result.success <=> pc = "Done")
    /\ ~AllCallsOk => (pc = "Failed" /\ ~result.success)

(* the synthesis call fails after two successful segment calls *)
C10_Witness ==
    /\ pc = "Failed"
    /\ Len(Calls) = 3
    /\ Calls[1].ok /\ Calls[2].ok
    /\ ~Calls[3].ok
    /\ ~result.success

----------------------------------------------------------------------------
(* C11: the pipeline never retries.  Within one run each segment is sent   *)
(* to the backend at most once, the synthesis or single-shot request at    *)
(* most once, so a run with N segments makes at most N + 1 backend calls.  *)
C11_NoRetry ==
    /\ Len(Calls) <= Len(chunks) + 1
    /\ \A k \in 1..Len(Calls) : \A j \in 1..Len(Calls) :
           (k < j /\ Calls[k].what = Calls[j].what) =>
               /\ Calls[k].what = "CHUNK_SUMMARY_PROMPT"
               /\ k <= Len(chunks) /\ j <= Len(chunks)
               /\ Calls[k].user = chunks[k]
               /\ Calls[j].user = chunks[j]

(* the synthesis call of a run over three segments has failed *)
C11_Witness ==
    /\ Len(chunks) = 3
    /\ Len(Calls) = 4
    /\ ~Calls[4].ok
    /\ pc = "Failed"

(* C12: progress is emitted before the work it announces.  With an         *)
(* observer, the notification for segment i (naming i and the total N) is  *)
(* emitted before the call for segment i and after the call for segment    *)
(* i-1, the final-summary notification after the last segment call and     *)
(* before the synthesis call; no notification follows a failed call.       *)
C12_ProgressBeforeWork ==
    /\ ~has_callback => \A p \in 1..Len(trace) : trace[p].type = "call"
    /\ has_callback =>
           /\ \A p \in 1..Len(trace) :
                  trace[p].type = "call" =>
                      /\ p > 1
                      /\ trace[p - 1].type = "progress"
           /\ \A p \in 1..Len(trace) :
                  trace[p].type = "progress" =>
                      /\ p > 1 => (trace[p - 1].type = "call" /\ trace[p - 1].ok)
                      /\ trace[p].what = "Summarizing section" =>
                             /\ p % 2 = 1
                             /\ trace[p].index = (p + 1) \div 2
                             /\ trace[p].total = Len(chunks)
                             /\ trace[p].index <= Len(chunks)
                             /\ p < Len(trace)
                             /\ trace[p + 1].what = "CHUNK_SUMMARY_PROMPT"
                             /\ trace[p + 1].user = chunks[trace[p].index]
                      /\ trace[p].what = "Creating final summary..." =>
                             /\ p = 2 * Len(chunks) + 1
                             /\ p < Len(trace) =>
                                    trace[p + 1].what = "META_SUMMARY_PROMPT"
                             /\ p = Len(trace) => pc = "Synthesizing"
                      /\ trace[p].what = "Generating summary..." =>
                             /\ p = 1
                             /\ Len(trace) = 2
                             /\ trace[2].what = "SUMMARY_SYSTEM_PROMPT"
           /\ \A p \in 1..Len(trace) :
                  trace[p].what = "META_SUMMARY_PROMPT" =>
                      trace[p - 1].what = "Creating final summary..."
           /\ \A p \in 1..Len(trace) :
                  trace[p].what = "CHUNK_SUMMARY_PROMPT" =>
                      trace[p - 1].what = "Summarizing section"

(* an observed run over three segments that reached the synthesis call *)
C12_Witness ==
    /\ has_callback
    /\ Len(chunks) = 3
    /\ Len(trace) = 8
    /\ trace[7].what = "Creating final summary..."
    /\ trace[8].what = "META_SUMMARY_PROMPT"

(* an upper bound on the number of steps a run has still to take: while   *)
(* no step is refused before a terminal state and every step lowers this   *)
(* number, a run whose backend calls all return reaches a terminal state   *)
StepsLeft ==
    CASE pc = "Idle" -> Len(transcript) + 5
      [] pc = "Chunking" -> Len(transcript) + 4
      [] pc = "SegmentSummarizing" -> (Len(chunks) - i) + 2
      [] pc \in {"SingleShot", "Synthesizing"} -> 1
      [] OTHER -> 0

(* some step of the run is possible; Chunking has no guard but its position *)
CanStep ==
    \/ pc = "Chunking"
    \/ ENABLED (\/ NoClient \/ GetClient
                \/ SingleShotOk \/ SingleShotFail
                \/ SegmentOk \/ SegmentFail \/ LoopExit
                \/ SynthOk \/ SynthFail)

(* C13: provided every backend call returns, every run ends in exactly one *)
(* terminal outcome, Done (success with a summary) or Failed (failure with *)
(* a message), and makes no backend call and emits no notification after   *)
(* reaching it.                                                            *)
C13_EndsInOneTerminalOutcome ==
    /\ [](Terminal \/ CanStep)
    /\ [][StepsLeft' < StepsLeft]_vars
    /\ [](pc = "Done" => (result.success /\ result.summary \in Summaries))
    /\ [](pc = "Failed" => (~result.success /\ result.kind # "none"
                            /\ result.summary = ""))
    /\ [](~Terminal => result = NoResult)
    /\ [][~Terminal]_vars

(* a run over two segments has ended in Done *)
C13_Witness ==
    /\ pc = "Done"
    /\ Len(chunks) = 2
    /\ Len(Calls) = 3

(* C14: when no API credential is configured, summarize_transcript returns *)
(* a configuration failure without chunking the transcript, without any    *)
(* backend call and without any progress notification.                     *)
C14_NoCredentialNoWork ==
    ~api_key =>
        /\ pc \in {"Idle", "Failed"}
        /\ chunks = <<>>
        /\ trace = <<>>
        /\ pc = "Failed" =>
               result = Failure("OpenAI API key not configured", <<>>)

(* a run without credential, with an observer, on a transcript that would  *)
(* be chunked, has returned                                                *)
C14_Witness ==
    /\ ~api_key
    /\ has_callback
    /\ Len(transcript) > MAX_CHUNK_CHARS
    /\ pc = "Failed"

(* C19: chunk_text returns at least one segment for every input text and   *)
(* budget, so the orchestrator never reaches the synthesis call with an    *)
(* empty list of segment summaries: synthesis is only ever called after at *)
(* least two successful segment calls.                                     *)
C19_SynthesisAfterTwoSegments ==
    /\ pc \in {"SingleShot", "SegmentSummarizing", "Synthesizing"} =>
           Len(chunks) >= 1
    /\ pc = "Synthesizing" => chunk_summaries # <<>>
    /\ \A k \in 1..Len(Calls) :
           Calls[k].what = "META_SUMMARY_PROMPT" =>
               /\ k >= 3
               /\ \A j \in 1..(k - 1) :
                      Calls[j].what = "CHUNK_SUMMARY_PROMPT" /\ Calls[j].ok

(* The same statement restricted to transcripts with a non-whitespace      *)
(* character                                                                *)
C19_HoldsWithContent ==
    (\E k \in 1..Len(transcript) : transcript[k] \notin Whitespace)
        => C19_SynthesisAfterTwoSegments

(* the lower-cased words of a backend message *)
LoweredWords(e) == {LowerWord(e[k]) : k \in DOMAIN e}

(* C21: in the single-shot path the failure message is chosen by the first
   matching test on the lower-cased backend message: 'api_key', then
   'rate_limit', then 'context_length' or 'maximum context', otherwise the
   generic message carrying the raw backend text; a message matching several
   tests gets the earliest classification. *)
C21_SingleShotFirstMatch ==
    \A k \in 1..Len(Calls) :
        (Calls[k].what = "SUMMARY_SYSTEM_PROMPT" /\ ~Calls[k].ok) =>
            /\ pc = "Failed"
            /\ ~result.success
            /\ result.summary = ""
            /\ "api_key" \in LoweredWords(Calls[k].error) =>
                  (result.kind = "Invalid OpenAI API key" /\ result.detail = <<>>)
            /\ ("api_key" \notin LoweredWords(Calls[k].error)
                /\ "rate_limit" \in LoweredWords(Calls[k].error)) =>
                  (result.kind = "Rate limit exceeded" /\ result.detail = <<>>)
            /\ ("api_key" \notin LoweredWords(Calls[k].error)
                /\ "rate_limit" \notin LoweredWords(Calls[k].error)
                /\ LoweredWords(Calls[k].error)
                      \cap {"context_length", "maximum context"} # {}) =>
                  (result.kind = "Transcript too long for the model"
                   /\ result.detail = <<>>)
            /\ LoweredWords(Calls[k].error)
                  \cap {"api_key", "rate_limit", "context_length",
                        "maximum context"} = {} =>
                  (result.kind = "Error calling LLM API"
                   /\ result.detail = Calls[k].error)

(* the direct call failed with a message that names the rate limit first
   and the key second: the key classification wins *)
C21_Witness ==
    /\ pc = "Failed"
    /\ Len(chunks) = 1
    /\ Len(Calls) = 1
    /\ Calls[1].error = <<"Rate_Limit", "API_KEY">>
    /\ result.kind = "Invalid OpenAI API key"

(* the backend call with system prompt and user message, answered by r *)
Answered(system, user, r) ==
    IF r.ok THEN CallOk(system, user, r.reply)
    ELSE CallFailed(system, user, r.error)

(* the multi-segment branch run on the backend answers rs: the calls made
   and the result, NoResult when the answers run out before the end *)
RECURSIVE ReplaySegments(_, _, _, _, _)
ReplaySegments(cs, rs, idx, summaries, calls) ==
    IF rs = <<>> THEN [calls |-> calls, result |-> NoResult]
    ELSE IF idx < Len(cs)
    THEN LET call == Answered("CHUNK_SUMMARY_PROMPT", cs[idx + 1], Head(rs))
         IN  IF Head(rs).ok
             THEN ReplaySegments(cs, Tail(rs), idx + 1,
                                 Append(summaries, Head(rs).reply),
                                 Append(calls, call))
             ELSE [calls |-> Append(calls, call),
                   result |-> ChunkFailure(Head(rs).error)]
    ELSE LET call == Answered("META_SUMMARY_PROMPT",
                              CombinedSummaries(summaries), Head(rs))
         IN  [calls |-> Append(calls, call),
              result |-> IF Head(rs).ok THEN Success(Head(rs).reply)
                         ELSE MetaFailure(Head(rs).error)]

(* summarize_transcript run without any observer on the transcript t, the
   credential key and the backend answers rs *)
Replay(t, key, rs) ==
    IF ~key
    THEN [calls |-> <<>>, result |-> Failure("OpenAI API key not configured", <<>>)]
    ELSE IF IsSingleChunk(chunk_text(t, MAX_CHUNK_CHARS))
    THEN IF rs = <<>> THEN [calls |-> <<>>, result |-> NoResult]
         ELSE [calls |-> <<Answered("SUMMARY_SYSTEM_PROMPT", FullPrompt(t), Head(rs))>>,
               result |-> IF Head(rs).ok THEN Success(Head(rs).reply)
                          ELSE ClassifySingleShot(Head(rs).error)]
    ELSE ReplaySegments(chunk_text(t, MAX_CHUNK_CHARS), rs, 0, <<>>, <<>>)

(* C22: progress notification is a side channel.  With or without an
   observer, the backend calls made and the result returned are those of
   the run without observer on the same transcript, credential and backend
   answers: they are a function of these three alone. *)
C22_ObserverIsSideChannel ==
    /\ Calls = Replay(transcript, api_key, Calls).calls
    /\ Terminal => result = Replay(transcript, api_key, Calls).result
    /\ ~Terminal => result = NoResult

(* a run with an observer over three segments: four notifications, the
   same four calls as without *)
C22_Witness ==
    /\ has_callback
    /\ pc = "Done"
    /\ Len(chunks) = 3
    /\ Len(trace) = 8
    /\ Len(Calls) = 4

----------------------------------------------------------------------------
(* Operators used to state the properties of chunk_text *)

Punctuation == {".", "?", "!"}

(* The sentences of a text: the pieces between the boundaries "sentence-   *)
(* ending punctuation followed by a space", trimmed, the empty ones dropped *)
RECURSIVE RawSentences(_)
RawSentences(s) ==
    IF \A k \in 1..(Len(s) - 1) : ~(s[k] \in Punctuation /\ s[k + 1] = " ")
    THEN <<s>>
    ELSE LET p == CHOOSE k \in 1..(Len(s) - 1) :
                      /\ s[k] \in Punctuation /\ s[k + 1] = " "
                      /\ \A j \in 1..(k - 1) :
                             ~(s[j] \in Punctuation /\ s[j + 1] = " ")
         IN  <<SubSeq(s, 1, p)>> \o RawSentences(SubSeq(s, p + 2, Len(s)))

RECURSIVE StripAll(_)
StripAll(ss) ==
    IF ss = <<>> THEN <<>>
    ELSE LET h == Strip(Head(ss))
         IN  (IF h = <<>> THEN <<>> ELSE <<h>>) \o StripAll(Tail(ss))

TextSentences(text) == StripAll(RawSentences(text))

RECURSIVE RemoveWhitespace(_)
RemoveWhitespace(s) ==
    IF s = <<>> THEN <<>>
    ELSE (IF Head(s) \in Whitespace THEN <<>> ELSE <<Head(s)>>)
         \o RemoveWhitespace(Tail(s))

RECURSIVE SpaceJoin(_)
SpaceJoin(ss) ==
    IF ss = <<>> THEN <<>>
    ELSE IF Len(ss) = 1 THEN ss[1]
    ELSE ss[1] \o <<" ">> \o SpaceJoin(Tail(ss))

Range(f) == {f[k] : k \in DOMAIN f}

Trimmed(s) == s # <<>> /\ s[1] \notin Whitespace /\ s[Len(s)] \notin Whitespace

ChunkDone == pc = "chunk_ret"

----------------------------------------------------------------------------
(* C6: for every text T with len(T) <= max_chars, chunk_text(T, max_chars) *)
(* returns exactly one segment, and that segment is the whole text T.      *)
C6_FastPathWhole ==
    (ChunkDone /\ Len(transcript) <= budget) => chunks = <<transcript>>

(* a text that fills the budget exactly and that the slow path would trim *)
C6_Witness ==
    /\ ChunkDone /\ Len(transcript) = budget
    /\ Strip(transcript) # transcript
    /\ chunks = <<transcript>>

(* C7: for every text T with len(T) > max_chars, every segment either has  *)
(* length <= max_chars or consists of exactly one sentence of T that is    *)
(* itself longer than max_chars; such a sentence is emitted whole as its   *)
(* own segment, never split or truncated.                                  *)
C7_BudgetOrWholeSentence ==
    (ChunkDone /\ Len(transcript) > budget) =>
        /\ \A k \in 1..Len(chunks) :
               \/ Len(chunks[k]) <= budget
               \/ chunks[k] \in Range(TextSentences(transcript))
        /\ \A S \in Range(TextSentences(transcript)) :
               Len(S) > budget => S \in Range(chunks)

(* The same statement restricted to texts without the character "|" *)
C7_HoldsWithoutBar ==
    (\A k \in 1..Len(transcript) : transcript[k] # "|")
        => C7_BudgetOrWholeSentence

(* C8: chunking loses no content: the segments taken in order contain      *)
(* exactly the non-whitespace characters of the input, in the same order.  *)
C8_ContentPreserved ==
    ChunkDone =>
        RemoveWhitespace(SpaceJoin(chunks)) = RemoveWhitespace(transcript)

(* The same statement restricted to texts without the character "|" *)
C8_HoldsWithoutBar ==
    (\A k \in 1..Len(transcript) : transcript[k] # "|")
        => C8_ContentPreserved

(* C9: for every input text and budget, every segment returned by          *)
(* chunk_text is non-empty and has no leading or trailing whitespace.      *)
C9_SegmentsTrimmed ==
    ChunkDone => \A k \in 1..Len(chunks) : Trimmed(chunks[k])

(* The same statement restricted to texts longer than the budget *)
C9_HoldsOnSlowPath ==
    (Len(transcript) > budget) => C9_SegmentsTrimmed

(* the segments cs are the sentences ss, in order, grouped without gaps,   *)
(* each group joined by single spaces, and no group could have taken the   *)
(* first sentence of the group after it within max_chars                   *)
RECURSIVE GreedilyPacked(_, _, _)
GreedilyPacked(ss, cs, max_chars) ==
    IF cs = <<>> THEN ss = <<>>
    ELSE \E n \in 1..Len(ss) :
             /\ SpaceJoin(SubSeq(ss, 1, n)) = cs[1]
             /\ n < Len(ss) => Len(cs[1]) + 1 + Len(ss[n + 1]) > max_chars
             /\ GreedilyPacked(SubSeq(ss, n + 1, Len(ss)), Tail(cs), max_chars)

(* C20: greedy packing is maximal.  For a text longer than max_chars a     *)
(* segment is sealed only when the next sentence does not fit: for every   *)
(* pair of consecutive segments, length(segment i) + 1 + length(first      *)
(* sentence of segment i+1) > max_chars; the sentences within a segment    *)
(* are joined by single spaces and keep their input order.                 *)
C20_GreedyMaximal ==
    (ChunkDone /\ Len(transcript) > budget) =>
        GreedilyPacked(TextSentences(transcript), chunks, budget)

(* The same statement restricted to texts without the character "|" *)
C20_HoldsWithoutBar ==
    (\A k \in 1..Len(transcript) : transcript[k] # "|")
        => C20_GreedyMaximal

(* The same statement about the sentence list the splitter of line 132     *)
(* produces, whatever the text                                             *)
C20_HoldsOnSplitterSentences ==
    (ChunkDone /\ Len(transcript) > budget) =>
        GreedilyPacked(StripAll(Sentences(transcript)), chunks, budget)


----------------------------------------------------------------------------
(* Configuration: get_secret and its callers get_openai_client, get_model *)

DEFAULT_MODEL == "gpt-4o"

SecretKeys == {"OPENAI_API_KEY", "OPENAI_MODEL"}

(* what a key can hold: nothing (None), the empty string, a value *)
SecretValues == {None, "", "configured"}

(* st.secrets.get(key, None): the entry, None when the key is absent *)
SecretsGet(key) == st_secrets.store[key]

(* os.getenv(key, default) *)
getenv(key, default) ==
    IF environ[key] # None THEN environ[key] ELSE default

(* get_secret(key, default): with streamlit, whatever st.secrets.get returns
   is returned; the environment is read only without streamlit or when
   reading st.secrets raises *)
get_secret(key, default) ==
    IF has_streamlit /\ ~st_secrets.raises
    THEN SecretsGet(key)
    ELSE getenv(key, default)

get_model == get_secret("OPENAI_MODEL", DEFAULT_MODEL)

InitSecret ==
    /\ transcript = <<>>
    /\ budget = MAX_CHUNK_CHARS
    /\ api_key = FALSE
    /\ has_callback = FALSE
    /\ pc = "config"
    /\ chunks = <<>>
    /\ i = 0
    /\ chunk_summaries = <<>>
    /\ trace = <<>>
    /\ result = NoResult
    /\ has_streamlit \in BOOLEAN
    /\ st_secrets \in [raises : BOOLEAN, store : [SecretKeys -> SecretValues]]
    /\ environ \in [SecretKeys -> SecretValues]
    /\ secret_out = None
    /\ FetchIdle /\ ExportIdle /\ AppIdle

(* get_model() *)
GetModel ==
    /\ pc = "config"
    /\ secret_out' = get_model
    /\ pc' = "get_model_ret"
    /\ UNCHANGED <<has_streamlit, st_secrets, environ>>
    /\ UNCHANGED <<transcript, budget, api_key, has_callback, chunks, i,
                   chunk_summaries, trace, result>>
    /\ UNCHANGED <<fetchVars, exportVars, appVars>>

(* api_key = get_secret("OPENAI_API_KEY") in get_openai_client; the client
   exists iff the value is truthy *)
GetApiKey ==
    /\ pc = "config"
    /\ secret_out' = get_secret("OPENAI_API_KEY", None)
    /\ api_key' = (secret_out' \notin {None, ""})
    /\ pc' = "get_api_key_ret"
    /\ UNCHANGED <<has_streamlit, st_secrets, environ>>
    /\ UNCHANGED <<transcript, budget, has_callback, chunks, i,
                   chunk_summaries, trace, result>>
    /\ UNCHANGED <<fetchVars, exportVars, appVars>>

NextSecret == GetModel \/ GetApiKey

SpecSecret == InitSecret /\ [][NextSecret]_vars

(* the key is present in Streamlit secrets *)
InSecrets(key) ==
    has_streamlit /\ ~st_secrets.raises /\ st_secrets.store[key] # None

(* secrets first, then the environment, then the default *)
SecretsEnvDefault(key, default) ==
    IF InSecrets(key) THEN st_secrets.store[key]
    ELSE IF environ[key] # None THEN environ[key]
    ELSE default

(* no model is configured, neither in the secrets nor in the environment *)
NoModelConfigured ==
    ~InSecrets("OPENAI_MODEL") /\ environ["OPENAI_MODEL"] = None

(* C15: get_secret returns the Streamlit secret when the key is present
   there, otherwise the environment variable, otherwise the default;
   get_model returns 'gpt-4o' when no model is configured and never returns
   an absent value. *)
C15_SecretsThenEnvThenDefault ==
    /\ pc = "get_model_ret" =>
          /\ secret_out = SecretsEnvDefault("OPENAI_MODEL", DEFAULT_MODEL)
          /\ secret_out # None
          /\ (NoModelConfigured => secret_out = DEFAULT_MODEL)
    /\ pc = "get_api_key_ret" =>
          secret_out = SecretsEnvDefault("OPENAI_API_KEY", None)

(* the order secrets, environment, default is kept whenever the key is in
   the secrets, streamlit is missing, or reading the secrets raises *)
C15_HoldsUnlessSecretsLackKey ==
    /\ (pc = "get_model_ret" /\ (InSecrets("OPENAI_MODEL")
                                  \/ ~has_streamlit \/ st_secrets.raises)) =>
          /\ secret_out = SecretsEnvDefault("OPENAI_MODEL", DEFAULT_MODEL)
          /\ secret_out # None
    /\ (pc = "get_api_key_ret" /\ (InSecrets("OPENAI_API_KEY")
                                    \/ ~has_streamlit \/ st_secrets.raises)) =>
          secret_out = SecretsEnvDefault("OPENAI_API_KEY", None)


----------------------------------------------------------------------------
(* Transcript retrieval: fetch_transcript *)

(* the default of the max_retries argument *)
DEFAULT_MAX_RETRIES == 3

(* exception classes of the transcript API; "Exception" is any other class *)
ExceptionClasses ==
    {"NoTranscriptFound", "TranscriptsDisabled", "VideoUnavailable",
     "NoTranscriptAvailable", "Exception"}

(* str(e): a message is a sequence of words *)
FetchMessages ==
    { <<"blocked">>, <<"XML", "blocked">>, <<"no element found">>,
      <<"Video", "unavailable">>, <<"Unavailable">>, <<"watch?v=aXmLbcd">> }

Exceptions == [cls : ExceptionClasses, msg : FetchMessages]

(* str.lower on a word *)
LowerFetchWord(w) ==
    CASE w = "XML" -> "xml"
      [] w = "Video" -> "video"
      [] w = "Unavailable" -> "unavailable"
      [] w = "watch?v=aXmLbcd" -> "watch?v=axmlbcd"
      [] OTHER -> w

LowerFetchMsg(m) == [k \in 1..Len(m) |-> LowerFetchWord(m[k])]

(* needle in word, for the needles the code looks for *)
WordHas(w, needle) ==
    \/ w = needle
    \/ needle = "xml" /\ w = "watch?v=axmlbcd"

(* needle in message, needle being one word *)
MsgHas(m, needle) == \E k \in 1..Len(m) : WordHas(m[k], needle)

(* "no element found" in error_str or "xml" in error_str *)
IsXmlError(m) ==
    MsgHas(LowerFetchMsg(m), "no element found") \/ MsgHas(LowerFetchMsg(m), "xml")

(* "Video unavailable" in error_msg or "unavailable" in error_msg.lower() *)
IsUnavailableError(m) ==
    \/ \E k \in 1..(Len(m) - 1) : m[k] = "Video" /\ m[k + 1] = "unavailable"
    \/ MsgHas(LowerFetchMsg(m), "unavailable")

(* the snippet texts of a fetched transcript *)
FetchedTranscripts ==
    { <<>>, << <<"a">> >>, << <<" ", "a">>, <<"b", "\n", "\n", "c", " ">> >> }

(* " ".join(texts) *)
RECURSIVE JoinSnippets(_)
JoinSnippets(texts) ==
    IF texts = <<>> THEN <<>>
    ELSE IF Len(texts) = 1 THEN texts[1]
    ELSE texts[1] \o <<" ">> \o JoinSnippets(Tail(texts))

(* re.sub(r'\s+', ' ', s) *)
RECURSIVE CollapseWhitespace(_)
CollapseWhitespace(s) ==
    IF s = <<>> THEN <<>>
    ELSE IF s[1] \in Whitespace
         THEN IF Len(s) > 1 /\ s[2] \in Whitespace
              THEN CollapseWhitespace(Tail(s))
              ELSE <<" ">> \o CollapseWhitespace(Tail(s))
         ELSE <<s[1]>> \o CollapseWhitespace(Tail(s))

(* full_text of a fetched transcript *)
FullText(fetched) == Strip(CollapseWhitespace(JoinSnippets(fetched)))

(* the returned tuples *)
FetchSuccess(full_text) ==
    [success |-> TRUE, message |-> "Transcript fetched successfully",
     detail |-> <<>>, chars |-> Len(full_text),
     transcript |-> [present |-> TRUE, text |-> full_text]]

(* variant of FetchFailure: the empty string instead of None *)
FetchFailureEmptyText(message, detail) ==
    [success |-> FALSE, message |-> message, detail |-> detail, chars |-> 0,
     transcript |-> [present |-> TRUE, text |-> <<>>]]

FetchFailure(message, detail) ==
    [success |-> FALSE, message |-> message, detail |-> detail, chars |-> 0,
     transcript |-> NoText]

InvalidResponseInner ==
    FetchFailure("YouTube returned an invalid response. Please try again in a few moments.", <<>>)

InvalidResponseOuter ==
    FetchFailure("YouTube returned an invalid response. This may be temporary - please try again in a few moments.", <<>>)

TranscriptsDisabledFailure ==
    FetchFailure("Transcripts are disabled for this video.", <<>>)

VideoUnavailableFailure ==
    FetchFailure("This video is unavailable (private, deleted, or region-restricted).", <<>>)

NoTranscriptFailure ==
    FetchFailure("No transcript available for this video.", <<>>)

ErrorFetchingFailure(m) == FetchFailure("Error fetching transcript", m)

AllRetriesFailed(err) ==
    FetchFailure("Failed to fetch transcript after max_retries attempts",
                 IF err.present THEN err.msg ELSE <<"None">>)


(* the entries of fetch_trace: a call of the transcript API with the class it
   raised ("none" when it returned) and, for an exception that reaches
   except Exception of an inner try, whether its message passes the XML
   test and whether it passes the 'unavailable' test; or a time.sleep *)
ApiCall(api, raised, xml, unavailable) ==
    [ev |-> "call", api |-> api, attempt |-> attempt, raised |-> raised,
     xml |-> xml, unavailable |-> unavailable, secs |-> 0]

Sleep(secs) ==
    [ev |-> "sleep", api |-> "time.sleep", attempt |-> attempt,
     raised |-> "none", xml |-> FALSE, unavailable |-> FALSE, secs |-> secs]

BackoffLinear(a) == 2 * a

(* 2 ** attempt *)
Backoff(a) == 2 ^ a

(* what a handler does: return a tuple, or go on with the next attempt,
   after a sleep or at once *)
Return(r, err) == [kind |-> "return", result |-> r, last_error |-> err]

SleepAndContinue(err) ==
    [kind |-> "sleep_continue", result |-> NoFetchResult, last_error |-> err]

(* variant of FallThrough: the next attempt waits for the backoff *)
FallThroughWithBackoff(err) ==
    [kind |-> "sleep_continue", result |-> NoFetchResult, last_error |-> err]

FallThrough(err) ==
    [kind |-> "fall_through", result |-> NoFetchResult, last_error |-> err]

(* the handlers of the outer try *)
OuterHandler(e) ==
    CASE e.cls = "TranscriptsDisabled" ->
            Return(TranscriptsDisabledFailure, last_error)
      [] e.cls = "VideoUnavailable" ->
            Return(VideoUnavailableFailure, last_error)
      [] e.cls = "NoTranscriptAvailable" ->
            Return(NoTranscriptFailure, last_error)
      [] OTHER ->
            LET err == [present |-> TRUE, msg |-> e.msg]
            IN  IF IsXmlError(e.msg)
                THEN IF attempt < max_retries - 1
                     THEN SleepAndContinue(err)
                     ELSE Return(InvalidResponseOuter, err)
                ELSE IF IsUnavailableError(e.msg)
                THEN Return(VideoUnavailableFailure, err)
                ELSE IF attempt = max_retries - 1
                THEN Return(ErrorFetchingFailure(e.msg), err)
                ELSE FallThrough(err)

(* except Exception of the two inner try blocks: the XML test comes before
   the class of the exception is looked at *)
InnerHandler(e) ==
    IF IsXmlError(e.msg)
    THEN IF attempt < max_retries - 1
         THEN SleepAndContinue(last_error)
         ELSE Return(InvalidResponseInner, last_error)
    ELSE OuterHandler(e)

(* get_transcript, line 250: the tuple of fetch_transcript with the video id *)
GetReturn(r) ==
    [returned |-> TRUE, success |-> r.success, message |-> r.message,
     detail |-> r.detail, chars |-> r.chars, transcript |-> r.transcript,
     video_id |-> validated.video_id]

(* fetch_transcript returns r; when get_transcript called it, get_transcript
   returns r with the video id *)
Returns(r) ==
    /\ fetch_result' = r
    /\ pc' = "fetch_done"
    /\ get_result' = IF validated.called THEN GetReturn(r) ELSE get_result

(* the call api raised e and the exception reached except Exception of the
   inner try *)
Raises(api, e) ==
    LET h == InnerHandler(e)
        call == ApiCall(api, e.cls, IsXmlError(e.msg), IsUnavailableError(e.msg))
    IN  /\ fetch_trace' =
              IF h.kind = "sleep_continue"
              THEN fetch_trace \o <<call, Sleep(Backoff(attempt))>>
              ELSE Append(fetch_trace, call)
        /\ last_error' = h.last_error
        /\ IF h.kind = "return"
           THEN /\ Returns(h.result)
                /\ UNCHANGED attempt
           ELSE IF attempt + 1 < max_retries
           THEN /\ attempt' = attempt + 1
                /\ pc' = "fetch_direct"
                /\ UNCHANGED <<fetch_result, get_result>>
           ELSE /\ Returns(AllRetriesFailed(h.last_error))
                /\ UNCHANGED attempt
        /\ UNCHANGED <<max_retries, transcript_obj, validated>>
        /\ UNCHANGED <<transcript, budget, api_key, has_callback, chunks, i,
                       chunk_summaries, trace, result>>
        /\ UNCHANGED <<secretVars, exportVars, appVars>>

(* the call api returned or its exception was caught on the spot: go on at
   position next with the local transcript t *)
GoesOn(api, raised, xml, next, t) ==
    /\ fetch_trace' = Append(fetch_trace, ApiCall(api, raised, xml, FALSE))
    /\ transcript_obj' = t
    /\ pc' = next
    /\ UNCHANGED <<max_retries, attempt, last_error, fetch_result, validated,
                   get_result>>
    /\ UNCHANGED <<transcript, budget, api_key, has_callback, chunks, i,
                   chunk_summaries, trace, result>>
    /\ UNCHANGED <<secretVars, exportVars, appVars>>

(* the call api returned the snippets fetched: return the success tuple *)
ReturnsText(api, fetched) ==
    /\ fetch_trace' = Append(fetch_trace, ApiCall(api, "none", FALSE, FALSE))
    /\ Returns(FetchSuccess(FullText(fetched)))
    /\ UNCHANGED <<max_retries, attempt, last_error, transcript_obj, validated>>
    /\ UNCHANGED <<transcript, budget, api_key, has_callback, chunks, i,
                   chunk_summaries, trace, result>>
    /\ UNCHANGED <<secretVars, exportVars, appVars>>


(* A URL is a sequence of pieces: blanks, scheme, host, path, video id *)
Urls ==
    { <<>>,
      <<" ">>,
      <<"https://", "example.com", "/watch?v=", "dQw4w9WgXcQ">>,
      <<"https://", "youtube.com", "/watch?v=", "abc">>,
      <<"https://", "YouTube.com", "/watch?v=", "dQw4w9WgXcQ">>,
      <<"https://", "youtu.be", "/watch?v=", "dQw4w9WgXcQ">>,
      <<" ", "https://", "youtube.com", "/watch?v=", "dQw4w9WgXcQ", " ">>,
      <<"https://", "youtube.com", "/watch?list=PL&v=", "dQw4w9WgXcQ">>,
      <<"https://", "youtu.be", "/", "dQw4w9WgXcQ">>,
      <<"https://", "youtube.com", "/embed/", "dQw4w9WgXcQ">>,
      <<"https://", "youtube.com", "/v/", "dQw4w9WgXcQ">> }

(* str.lower on a piece of a URL *)
LowerUrlPiece(w) == IF w = "YouTube.com" THEN "youtube.com" ELSE w

(* ([a-zA-Z0-9_-]{11}) *)
IsVideoId(w) == w = "dQw4w9WgXcQ"

(* re.search of one of the four patterns: host, then path, then the id *)
PatternMatches(url, host, paths) ==
    { k \in 1..(Len(url) - 2) :
         url[k] = host /\ url[k + 1] \in paths /\ IsVideoId(url[k + 2]) }

(* the patterns of extract_video_id, in the order they are tried *)
UrlPatterns ==
    << [host |-> "youtube.com", paths |-> {"/watch?v=", "/watch?list=PL&v="}],
       [host |-> "youtu.be", paths |-> {"/"}],
       [host |-> "youtube.com", paths |-> {"/embed/"}],
       [host |-> "youtube.com", paths |-> {"/v/"}] >>

(* extract_video_id: group 1 of the first pattern that matches, else None *)
extract_video_id(url) ==
    LET stripped == Strip(url)
        hits == { n \in DOMAIN UrlPatterns :
                     PatternMatches(stripped, UrlPatterns[n].host,
                                    UrlPatterns[n].paths) # {} }
    IN  IF stripped = <<>> \/ hits = {} THEN None
        ELSE LET n == CHOOSE n \in hits : \A o \in hits : n <= o
                 k == CHOOSE k \in PatternMatches(stripped, UrlPatterns[n].host,
                                                  UrlPatterns[n].paths) :
                         \A j \in PatternMatches(stripped, UrlPatterns[n].host,
                                                 UrlPatterns[n].paths) : k <= j
             IN  stripped[k + 2]

(* validate_youtube_url *)
validate_youtube_url(url) ==
    IF Strip(url) = <<>>
    THEN [called |-> TRUE, is_valid |-> FALSE,
          message |-> "Please enter a YouTube URL.", video_id |-> None]
    ELSE IF \A k \in DOMAIN Strip(url) :
               LowerUrlPiece(Strip(url)[k]) \notin {"youtube.com", "youtu.be"}
    THEN [called |-> TRUE, is_valid |-> FALSE,
          message |-> "This doesn't appear to be a YouTube URL.", video_id |-> None]
    ELSE IF extract_video_id(Strip(url)) = None
    THEN [called |-> TRUE, is_valid |-> FALSE,
          message |-> "Could not extract video ID from URL. Please check the URL format.",
          video_id |-> None]
    ELSE [called |-> TRUE, is_valid |-> TRUE, message |-> "Valid YouTube URL.",
          video_id |-> extract_video_id(Strip(url))]

(* fetch_transcript is called with max_retries below the default, or
   get_transcript is called and calls it with the default *)
InitFetch ==
    /\ transcript = <<>>
    /\ budget = MAX_CHUNK_CHARS
    /\ api_key = FALSE
    /\ has_callback = FALSE
    /\ \/ pc = "fetch_call" /\ max_retries \in 0..(DEFAULT_MAX_RETRIES - 1)
       \/ pc = "get_call" /\ max_retries = DEFAULT_MAX_RETRIES
    /\ chunks = <<>>
    /\ i = 0
    /\ chunk_summaries = <<>>
    /\ trace = <<>>
    /\ result = NoResult
    /\ attempt = 0
    /\ transcript_obj = NoTranscript
    /\ last_error = NoError
    /\ fetch_trace = <<>>
    /\ fetch_result = NoFetchResult
    /\ validated = NotValidated
    /\ get_result = NoGetResult
    /\ SecretsIdle /\ ExportIdle /\ AppIdle

(* get_transcript, lines 242-245: the URL is not valid *)
GetTranscriptInvalidUrl ==
    /\ pc = "get_call"
    /\ \E url \in Urls :
          /\ ~validate_youtube_url(url).is_valid
          /\ validated' = validate_youtube_url(url)
          /\ get_result' = [NoGetResult EXCEPT !.returned = TRUE,
                                               !.message = validated'.message]
    /\ pc' = "get_done"
    /\ UNCHANGED <<max_retries, attempt, transcript_obj, last_error, fetch_trace,
                   fetch_result>>
    /\ UNCHANGED <<transcript, budget, api_key, has_callback, chunks, i,
                   chunk_summaries, trace, result>>
    /\ UNCHANGED <<secretVars, exportVars, appVars>>

(* get_transcript, lines 242-248: the URL is valid, fetch_transcript(video_id) *)
GetTranscriptFetch ==
    /\ pc = "get_call"
    /\ \E url \in Urls :
          /\ validate_youtube_url(url).is_valid
          /\ validated' = validate_youtube_url(url)
    /\ pc' = "fetch_call"
    /\ UNCHANGED <<max_retries, attempt, transcript_obj, last_error, fetch_trace,
                   fetch_result, get_result>>
    /\ UNCHANGED <<transcript, budget, api_key, has_callback, chunks, i,
                   chunk_summaries, trace, result>>
    /\ UNCHANGED <<secretVars, exportVars, appVars>>

(* for attempt in range(max_retries): the first iteration, or none *)
FetchStart ==
    /\ pc = "fetch_call"
    /\ IF max_retries > 0
       THEN pc' = "fetch_direct" /\ UNCHANGED <<fetch_result, get_result>>
       ELSE Returns(AllRetriesFailed(last_error))
    /\ UNCHANGED <<max_retries, attempt, transcript_obj, last_error, fetch_trace,
                   validated>>
    /\ UNCHANGED <<transcript, budget, api_key, has_callback, chunks, i,
                   chunk_summaries, trace, result>>
    /\ UNCHANGED <<secretVars, exportVars, appVars>>

(* ytt_api.fetch(video_id, languages=languages) returns *)
DirectFetchOk ==
    /\ pc = "fetch_direct"
    /\ \E fetched \in FetchedTranscripts : ReturnsText("fetch", fetched)

(* ytt_api.fetch raises NoTranscriptFound, whatever its message: go on to
   the listing *)
DirectFetchNotFound ==
    /\ pc = "fetch_direct"
    /\ GoesOn("fetch", "NoTranscriptFound", FALSE, "fetch_list", transcript_obj)

(* ytt_api.fetch raises anything else *)
DirectFetchRaises ==
    /\ pc = "fetch_direct"
    /\ \E e \in Exceptions :
          /\ e.cls # "NoTranscriptFound"
          /\ Raises("fetch", e)

(* ytt_api.list(video_id) returns; transcript = None *)
ListOk ==
    /\ pc = "fetch_list"
    /\ GoesOn("list", "none", FALSE, "fetch_find", NoTranscript)

ListRaises ==
    /\ pc = "fetch_list"
    /\ \E e \in Exceptions : Raises("list", e)

(* transcript_list.find_transcript(languages) returns a transcript *)
FindOk ==
    /\ pc = "fetch_find"
    /\ \E translatable \in BOOLEAN :
          GoesOn("find_transcript", "none", FALSE, "fetch_data",
                 [present |-> TRUE, language_preferred |-> TRUE,
                  is_translatable |-> translatable, translated |-> FALSE])

(* find_transcript raises NoTranscriptFound and the list is empty *)
FindNotFoundNoneAvailable ==
    /\ pc = "fetch_find"
    /\ fetch_trace' = Append(fetch_trace,
           ApiCall("find_transcript", "NoTranscriptFound", FALSE, FALSE))
    /\ Returns(NoTranscriptFailure)
    /\ UNCHANGED <<max_retries, attempt, last_error, transcript_obj, validated>>
    /\ UNCHANGED <<transcript, budget, api_key, has_callback, chunks, i,
                   chunk_summaries, trace, result>>
    /\ UNCHANGED <<secretVars, exportVars, appVars>>

(* variant of FindNotFoundFirstAvailable: every translatable transcript is
   translated, whatever its language *)
FindNotFoundAlwaysTranslates ==
    /\ pc = "fetch_find"
    /\ \E preferred \in BOOLEAN, translatable \in BOOLEAN :
          GoesOn("find_transcript", "NoTranscriptFound", FALSE,
                 IF translatable THEN "fetch_translate" ELSE "fetch_data",
                 [present |-> TRUE, language_preferred |-> preferred,
                  is_translatable |-> translatable, translated |-> FALSE])

(* find_transcript raises NoTranscriptFound: transcript = available[0], to
   be translated when its language is not a preferred one and it is
   translatable *)
FindNotFoundFirstAvailable ==
    /\ pc = "fetch_find"
    /\ \E preferred \in BOOLEAN, translatable \in BOOLEAN :
          GoesOn("find_transcript", "NoTranscriptFound", FALSE,
                 IF ~preferred /\ translatable
                 THEN "fetch_translate" ELSE "fetch_data",
                 [present |-> TRUE, language_preferred |-> preferred,
                  is_translatable |-> translatable, translated |-> FALSE])

FindRaises ==
    /\ pc = "fetch_find"
    /\ \E e \in Exceptions :
          /\ e.cls # "NoTranscriptFound"
          /\ Raises("find_transcript", e)

(* transcript.translate('en') returns *)
TranslateOk ==
    /\ pc = "fetch_translate"
    /\ GoesOn("translate", "none", FALSE, "fetch_data",
              [transcript_obj EXCEPT !.language_preferred = TRUE,
                                     !.translated = TRUE])

(* transcript.translate('en') raises (it sends no request: the exception is
   none of the four classes above), whatever the message: the original is
   used *)
TranslateFails ==
    /\ pc = "fetch_translate"
    /\ GoesOn("translate", "Exception", FALSE, "fetch_data", transcript_obj)

(* transcript.fetch() returns *)
TranscriptFetchOk ==
    /\ pc = "fetch_data"
    /\ \E fetched \in FetchedTranscripts : ReturnsText("transcript.fetch", fetched)

TranscriptFetchRaises ==
    /\ pc = "fetch_data"
    /\ \E e \in Exceptions : Raises("transcript.fetch", e)

NextFetch ==
    \/ GetTranscriptInvalidUrl
    \/ GetTranscriptFetch
    \/ FetchStart
    \/ DirectFetchOk
    \/ DirectFetchNotFound
    \/ DirectFetchRaises
    \/ ListOk
    \/ ListRaises
    \/ FindOk
    \/ FindNotFoundNoneAvailable
    \/ FindNotFoundFirstAvailable
    \/ FindRaises
    \/ TranslateOk
    \/ TranslateFails
    \/ TranscriptFetchOk
    \/ TranscriptFetchRaises

SpecFetch == InitFetch /\ [][NextFetch]_vars


(* Operators used to state the properties of fetch_transcript *)

(* the k-th entry of fetch_trace is a call that raised an exception whose
   message passed the XML test *)
XmlErrorAt(k) ==
    fetch_trace[k].ev = "call" /\ fetch_trace[k].xml

(* the attempts made so far: every attempt begins with the direct fetch *)
AttemptsMade ==
    Cardinality({k \in DOMAIN fetch_trace : fetch_trace[k].api = "fetch"})

(* the 'invalid response' failures *)
IsInvalidResponse(r) == r \in {InvalidResponseInner, InvalidResponseOuter}

(* the next attempt follows the entry k of fetch_trace, or is about to *)
NextAttemptFollows(k) ==
    IF k = Len(fetch_trace)
    THEN pc = "fetch_direct" /\ attempt = fetch_trace[k].attempt + 1
    ELSE /\ fetch_trace[k + 1].api = "fetch"
         /\ fetch_trace[k + 1].attempt = fetch_trace[k].attempt + 1

(* C16: fetch_transcript makes at most max_retries attempts; after an XML /
   parse error on attempt a < max_retries - 1 it waits 2^a seconds and
   attempts again; on the last attempt it returns the 'invalid response'
   failure without waiting; it waits at no other moment. *)
C16_RetryWithBackoff ==
    /\ AttemptsMade <= max_retries
    /\ \A k \in DOMAIN fetch_trace : fetch_trace[k].attempt < max_retries
    /\ \A k \in DOMAIN fetch_trace :
          XmlErrorAt(k) =>
             IF fetch_trace[k].attempt < max_retries - 1
             THEN /\ k < Len(fetch_trace)
                  /\ fetch_trace[k + 1].ev = "sleep"
                  /\ fetch_trace[k + 1].secs = 2 ^ fetch_trace[k].attempt
                  /\ NextAttemptFollows(k + 1)
             ELSE /\ k = Len(fetch_trace)
                  /\ pc = "fetch_done"
                  /\ IsInvalidResponse(fetch_result)
    /\ \A k \in DOMAIN fetch_trace :
          fetch_trace[k].ev = "sleep" => (k > 1 /\ XmlErrorAt(k - 1))

(* three attempts end in XML errors: waits of 1 and 2 seconds, then the
   'invalid response' failure *)
C16_Witness ==
    /\ pc = "fetch_done"
    /\ max_retries = DEFAULT_MAX_RETRIES
    /\ AttemptsMade = DEFAULT_MAX_RETRIES
    /\ IsInvalidResponse(fetch_result)
    /\ XmlErrorAt(Len(fetch_trace))
    /\ [k \in 1..Len(SelectSeq(fetch_trace, LAMBDA ev : ev.ev = "sleep"))
           |-> SelectSeq(fetch_trace, LAMBDA ev : ev.ev = "sleep")[k].secs]
          = <<1, 2>>

UnavailableClasses ==
    {"TranscriptsDisabled", "VideoUnavailable", "NoTranscriptAvailable"}

(* the failure that corresponds to a content-unavailable exception *)
UnavailableFailure(cls) ==
    CASE cls = "TranscriptsDisabled" -> TranscriptsDisabledFailure
      [] cls = "VideoUnavailable" -> VideoUnavailableFailure
      [] cls = "NoTranscriptAvailable" -> NoTranscriptFailure

(* C17: when an attempt raises TranscriptsDisabled, VideoUnavailable or
   NoTranscriptAvailable, fetch_transcript returns the corresponding failure
   on that attempt: nothing follows the call, neither a wait nor another
   attempt. *)
C17_UnavailableNotRetried ==
    \A k \in DOMAIN fetch_trace :
       (fetch_trace[k].ev = "call" /\ fetch_trace[k].raised \in UnavailableClasses) =>
          /\ k = Len(fetch_trace)
          /\ pc = "fetch_done"
          /\ fetch_result = UnavailableFailure(fetch_trace[k].raised)

(* the same, for the exceptions whose message does not pass the XML test *)
C17_HoldsWithoutXmlInMessage ==
    \A k \in DOMAIN fetch_trace :
       (/\ fetch_trace[k].ev = "call"
        /\ fetch_trace[k].raised \in UnavailableClasses
        /\ ~fetch_trace[k].xml) =>
          /\ k = Len(fetch_trace)
          /\ pc = "fetch_done"
          /\ fetch_result = UnavailableFailure(fetch_trace[k].raised)


(* the k-th entry of fetch_trace is a call whose exception reached the
   handlers of the attempt: it was not caught on the spot as NoTranscriptFound
   of the direct fetch or of the language search, or as a failed translation *)
PropagatedAt(k) ==
    /\ fetch_trace[k].ev = "call"
    /\ fetch_trace[k].raised # "none"
    /\ fetch_trace[k].api # "translate"
    /\ ~(fetch_trace[k].api \in {"fetch", "find_transcript"}
         /\ fetch_trace[k].raised = "NoTranscriptFound")

(* the k-th entry is an exception that is neither an XML / parse error nor
   an unavailability error, by its class or by its message *)
OtherErrorAt(k) ==
    /\ PropagatedAt(k)
    /\ fetch_trace[k].raised \notin UnavailableClasses
    /\ ~fetch_trace[k].xml
    /\ ~fetch_trace[k].unavailable

(* C23 as claimed: an exception that is neither an XML / parse error nor an
   unavailability error ends the call with a failure on the attempt where
   it is raised, without a further call to the transcript API. *)
C23_OtherErrorEndsCall ==
    \A k \in DOMAIN fetch_trace :
       OtherErrorAt(k) =>
          /\ k = Len(fetch_trace)
          /\ pc = "fetch_done"
          /\ ~fetch_result.success
          /\ fetch_result.message # "none"

(* C23 amended: such an exception ends the call, with the 'Error fetching
   transcript' failure carrying its message, only on the last attempt; on
   an earlier attempt the next attempt follows at once, without a wait.
   A further attempt begins only after an XML / parse error and its wait,
   or after such an exception. *)
C23_OtherErrorRetriedAtOnce ==
    /\ \A k \in DOMAIN fetch_trace :
          OtherErrorAt(k) =>
             IF fetch_trace[k].attempt = max_retries - 1
             THEN /\ k = Len(fetch_trace)
                  /\ pc = "fetch_done"
                  /\ ~fetch_result.success
                  /\ fetch_result.message = "Error fetching transcript"
                  /\ last_error.present
                  /\ fetch_result.detail = last_error.msg
                  /\ ~fetch_result.transcript.present
             ELSE NextAttemptFollows(k)
    /\ \A k \in DOMAIN fetch_trace :
          (fetch_trace[k].api = "fetch" /\ fetch_trace[k].attempt > 0) =>
             /\ k > 1
             /\ \/ OtherErrorAt(k - 1)
                \/ /\ fetch_trace[k - 1].ev = "sleep"
                   /\ k > 2
                   /\ XmlErrorAt(k - 2)
                   /\ PropagatedAt(k - 2)

(* three attempts end in an exception that is neither: no wait, then the
   'Error fetching transcript' failure *)
C23_Witness ==
    /\ pc = "fetch_done"
    /\ max_retries = DEFAULT_MAX_RETRIES
    /\ Len(fetch_trace) = DEFAULT_MAX_RETRIES
    /\ \A k \in DOMAIN fetch_trace :
          fetch_trace[k].api = "fetch" /\ OtherErrorAt(k)
    /\ fetch_result.message = "Error fetching transcript"

(* C24: fallback order inside one attempt.  The listing is requested only
   after the direct fetch raised NoTranscriptFound; a transcript in a
   preferred language is chosen before any other; only when none exists is
   the first available transcript taken, translated only if its language is
   not preferred and it is translatable, and kept untranslated if the
   translation fails; with no transcript available the call fails with
   'No transcript available'. *)
C24_FallbackOrder ==
    /\ \A k \in DOMAIN fetch_trace :
          LET ev == fetch_trace[k]
              before == fetch_trace[k - 1]
          IN  /\ ev.api = "list" =>
                    /\ k > 1
                    /\ before.api = "fetch"
                    /\ before.raised = "NoTranscriptFound"
                    /\ before.attempt = ev.attempt
              /\ ev.api = "find_transcript" =>
                    /\ k > 1
                    /\ before.api = "list"
                    /\ before.raised = "none"
                    /\ before.attempt = ev.attempt
              /\ ev.api = "translate" =>
                    /\ k > 1
                    /\ before.api = "find_transcript"
                    /\ before.raised = "NoTranscriptFound"
                    /\ before.attempt = ev.attempt
              /\ ev.api = "transcript.fetch" =>
                    /\ k > 1
                    /\ before.api \in {"find_transcript", "translate"}
                    /\ before.attempt = ev.attempt
    /\ pc = "fetch_find" => ~transcript_obj.present
    /\ pc = "fetch_translate" =>
          /\ fetch_trace[Len(fetch_trace)].api = "find_transcript"
          /\ transcript_obj.present
          /\ ~transcript_obj.language_preferred
          /\ transcript_obj.is_translatable
          /\ ~transcript_obj.translated
    /\ pc = "fetch_data" =>
          LET last == fetch_trace[Len(fetch_trace)]
          IN  /\ transcript_obj.present
              /\ (last.api = "find_transcript" /\ last.raised = "none") =>
                    (transcript_obj.language_preferred /\ ~transcript_obj.translated)
              /\ (last.api = "find_transcript" /\ last.raised # "none") =>
                    /\ ~transcript_obj.translated
                    /\ transcript_obj.language_preferred \/ ~transcript_obj.is_translatable
              /\ (last.api = "translate" /\ last.raised = "none") =>
                    transcript_obj.translated
              /\ (last.api = "translate" /\ last.raised # "none") =>
                    /\ ~transcript_obj.translated
                    /\ ~transcript_obj.language_preferred
    /\ (/\ pc = "fetch_done"
        /\ fetch_trace # <<>>
        /\ fetch_trace[Len(fetch_trace)].api = "find_transcript"
        /\ fetch_trace[Len(fetch_trace)].raised = "NoTranscriptFound") =>
          fetch_result = NoTranscriptFailure

(* the whole chain in one attempt: direct fetch finds nothing, no preferred
   language in the listing, the translation of the first available
   transcript fails and the original is fetched *)
C24_Witness ==
    /\ pc = "fetch_done"
    /\ fetch_result.success
    /\ Len(fetch_trace) = 5
    /\ [k \in 1..5 |-> fetch_trace[k].api]
          = <<"fetch", "list", "find_transcript", "translate", "transcript.fetch">>
    /\ fetch_trace[4].raised # "none"
    /\ ~transcript_obj.translated

(* a returned tuple has a transcript text exactly when it reports success,
   and a failure has a message *)
TextIffSuccess(r) ==
    /\ r.transcript.present <=> r.success
    /\ ~r.success =>
          /\ r.message \notin {"", "none"}
          /\ r.transcript = NoText

(* C25: in every result of fetch_transcript and of get_transcript the
   transcript text is present (not None) if and only if the success flag is
   true; every failure carries a message and no transcript. *)
C25_TranscriptIffSuccess ==
    /\ pc = "fetch_done" => TextIffSuccess(fetch_result)
    /\ pc # "fetch_done" => fetch_result = NoFetchResult
    /\ get_result.returned =>
          /\ pc \in {"get_done", "fetch_done"}
          /\ TextIffSuccess(get_result)
          /\ get_result.success => get_result.video_id # None
    /\ (pc = "fetch_done" /\ validated.called) =>
          /\ get_result.returned
          /\ get_result.success = fetch_result.success
          /\ get_result.transcript = fetch_result.transcript

(* get_transcript succeeded with an empty transcript: the text is present,
   not None *)
C25_Witness ==
    /\ pc = "fetch_done"
    /\ get_result.returned
    /\ get_result.success
    /\ get_result.transcript = [present |-> TRUE, text |-> <<>>]
    /\ get_result.video_id = "dQw4w9WgXcQ"

----------------------------------------------------------------------------
(* Export: export_summary, generate_txt, generate_md, generate_pdf *)

FormatAlphabet ==
    {"t", "T", "x", "X", "m", "M", "d", "D", "p", "P", "f", "F"}

UpperAsIs(c) == c

(* str.upper on a character *)
Upper(c) ==
    CASE c = "t" -> "T"
      [] c = "x" -> "X"
      [] c = "m" -> "M"
      [] c = "d" -> "D"
      [] c = "p" -> "P"
      [] c = "f" -> "F"
      [] c = "a" -> "A"
      [] c = "b" -> "B"
      [] OTHER -> c

(* str.upper *)
UpperStr(str) == [k \in 1..Len(str) |-> Upper(str[k])]

(* str.startswith *)
StartsWith(str, prefix) ==
    Len(str) >= Len(prefix) /\ SubSeq(str, 1, Len(prefix)) = prefix

(* str[n:] *)
From(str, n) == SubSeq(str, n + 1, Len(str))

(* a summary is the list of its lines, summary.split('\n') *)
ExportSummaries ==
    { << <<>> >>,
      << <<"#", " ", "a">>, <<"a">>, <<" ", "b">> >>,
      << <<"a", "&">>, <<"#", "#", " ", "a", "<">>, <<>>, <<"-", " ", "b">>,
         <<"1", ".", " ", "a">> >> }

VideoIds == {None, "", "dQw4w9WgXcQ"}

(* if video_id *)
Truthy(video_id) == video_id \notin {None, ""}

(* f"summary_{video_id}.ext" if video_id else "summary.ext" *)
Filename(video_id, ext) ==
    IF Truthy(video_id)
    THEN <<"summary", "_", video_id, ".", ext>>
    ELSE <<"summary", ".", ext>>

(* generate_txt: the lines of the text file *)
RECURSIVE TxtLines(_)
TxtLines(lines) ==
    IF lines = <<>> THEN <<>>
    ELSE LET line == Head(lines)
             out == IF StartsWith(line, <<"#", "#", " ">>)
                    THEN << <<>>, UpperStr(From(line, 3)),
                            [k \in 1..Len(From(line, 3)) |-> "="] >>
                    ELSE IF StartsWith(line, <<"#", " ">>)
                    THEN << <<>>, UpperStr(From(line, 2)),
                            [k \in 1..Len(From(line, 2)) |-> "="] >>
                    ELSE <<line>>
         IN  out \o TxtLines(Tail(lines))

generate_txt(summary, video_id) ==
    [bytes |-> TxtLines(summary), filename |-> Filename(video_id, "txt")]

(* generate_md: the lines of the markdown file *)
generate_md(summary, video_id) ==
    LET titled == IF StartsWith(summary[1], <<"#">>)
                  THEN summary
                  ELSE << <<"# Video Summary">>, <<>> >> \o summary
        text == IF Truthy(video_id)
                THEN titled \o << <<>>, <<"---">>,
                                  <<"*Generated from YouTube video: ", video_id, "*">> >>
                ELSE titled
    IN  [bytes |-> text, filename |-> Filename(video_id, "md")]


(* str.replace(c, new) for a one-character c *)
RECURSIVE ReplaceChar(_, _, _)
ReplaceChar(str, c, new) ==
    IF str = <<>> THEN <<>>
    ELSE (IF Head(str) = c THEN new ELSE <<Head(str)>>)
            \o ReplaceChar(Tail(str), c, new)

(* .replace('&', '&amp;').replace('<', '&lt;').replace('>', '&gt;') *)
EscapeMarkup(text) ==
    ReplaceChar(ReplaceChar(ReplaceChar(text, "&", <<"&", "a", "m", "p", ";">>),
                            "<", <<"&", "l", "t", ";">>),
                ">", <<"&", "g", "t", ";">>)

Paragraph(text, style) == [style |-> style, text |-> text]

Spacer == [style |-> "Spacer", text |-> <<>>]

(* flush_text: the story after the accumulated text became a paragraph *)
FlushText(current_text, story) ==
    IF current_text # <<>> /\ Strip(JoinSnippets(current_text)) # <<>>
    THEN Append(story, Paragraph(EscapeMarkup(Strip(JoinSnippets(current_text))),
                                 "CustomBody"))
    ELSE story

Digits == {"0", "1", "2", "3", "4", "5", "6", "7", "8", "9"}

(* the loop over the lines of generate_pdf *)
RECURSIVE PdfStory(_, _, _)
PdfStory(lines, current_text, story) ==
    IF lines = <<>> THEN FlushText(current_text, story)
    ELSE LET line == Strip(Head(lines))
             rest == Tail(lines)
             flushed == FlushText(current_text, story)
         IN  IF line = <<>> THEN PdfStory(rest, <<>>, flushed)
             ELSE IF StartsWith(line, <<"#", "#", " ">>)
             THEN PdfStory(rest, <<>>,
                     Append(flushed, Paragraph(EscapeMarkup(From(line, 3)), "CustomHeading")))
             ELSE IF StartsWith(line, <<"#", " ">>)
             THEN PdfStory(rest, <<>>,
                     Append(flushed, Paragraph(EscapeMarkup(From(line, 2)), "CustomTitle")))
             ELSE IF StartsWith(line, <<"-", " ">>) \/ StartsWith(line, <<"*", " ">>)
             THEN PdfStory(rest, <<>>,
                     Append(flushed, Paragraph(<<"(bullet)", " ">> \o EscapeMarkup(From(line, 2)),
                                               "CustomBullet")))
             ELSE IF Len(line) > 2 /\ line[1] \in Digits /\ line[2] \in {".", ")", ":"}
             THEN PdfStory(rest, <<>>,
                     Append(flushed, Paragraph(EscapeMarkup(line), "CustomBullet")))
             ELSE PdfStory(rest, Append(current_text, line), story)

(* generate_pdf: the story the document is built from *)
generate_pdf(summary, video_id) ==
    LET content == PdfStory(summary, <<>>,
                            <<Paragraph(<<"Video Summary">>, "CustomTitle"), Spacer>>)
        story == IF Truthy(video_id)
                 THEN content \o <<Spacer,
                         Paragraph(<<"Generated from YouTube video: ", video_id>>, "Footer")>>
                 ELSE content
    IN  [bytes |-> story, filename |-> Filename(video_id, "pdf")]

Exported(file, mime) ==
    [returned |-> TRUE, raised |-> "none", bytes |-> file.bytes,
     filename |-> file.filename, mime |-> mime]

InitExport ==
    /\ transcript = <<>>
    /\ budget = MAX_CHUNK_CHARS
    /\ api_key = FALSE
    /\ has_callback = FALSE
    /\ pc = "export_call"
    /\ chunks = <<>>
    /\ i = 0
    /\ chunk_summaries = <<>>
    /\ trace = <<>>
    /\ result = NoResult
    /\ export_args \in [summary : ExportSummaries,
                        format : StringsOver(FormatAlphabet, MaxFormatLen),
                        video_id : VideoIds]
    /\ exported = NotExported
    /\ SecretsIdle /\ FetchIdle /\ AppIdle

(* format.upper() == 'TXT' *)
ExportTxt ==
    /\ pc = "export_call"
    /\ UpperStr(export_args.format) = <<"T", "X", "T">>
    /\ exported' = Exported(generate_txt(export_args.summary, export_args.video_id),
                            "text/plain")
    /\ pc' = "export_ret"
    /\ UNCHANGED export_args
    /\ UNCHANGED <<transcript, budget, api_key, has_callback, chunks, i,
                   chunk_summaries, trace, result>>
    /\ UNCHANGED <<secretVars, fetchVars, appVars>>

(* format.upper() == 'MD' *)
ExportMd ==
    /\ pc = "export_call"
    /\ UpperStr(export_args.format) = <<"M", "D">>
    /\ exported' = Exported(generate_md(export_args.summary, export_args.video_id),
                            "text/markdown")
    /\ pc' = "export_ret"
    /\ UNCHANGED export_args
    /\ UNCHANGED <<transcript, budget, api_key, has_callback, chunks, i,
                   chunk_summaries, trace, result>>
    /\ UNCHANGED <<secretVars, fetchVars, appVars>>

(* format.upper() == 'PDF' *)
ExportPdf ==
    /\ pc = "export_call"
    /\ UpperStr(export_args.format) = <<"P", "D", "F">>
    /\ exported' = Exported(generate_pdf(export_args.summary, export_args.video_id),
                            "application/pdf")
    /\ pc' = "export_ret"
    /\ UNCHANGED export_args
    /\ UNCHANGED <<transcript, budget, api_key, has_callback, chunks, i,
                   chunk_summaries, trace, result>>
    /\ UNCHANGED <<secretVars, fetchVars, appVars>>

(* else: raise ValueError *)
ExportUnsupported ==
    /\ pc = "export_call"
    /\ UpperStr(export_args.format) \notin
          {<<"T", "X", "T">>, <<"M", "D">>, <<"P", "D", "F">>}
    /\ exported' = [NotExported EXCEPT !.raised = "ValueError"]
    /\ pc' = "export_raised"
    /\ UNCHANGED export_args
    /\ UNCHANGED <<transcript, budget, api_key, has_callback, chunks, i,
                   chunk_summaries, trace, result>>
    /\ UNCHANGED <<secretVars, fetchVars, appVars>>

NextExport == ExportTxt \/ ExportMd \/ ExportPdf \/ ExportUnsupported

SpecExport == InitExport /\ [][NextExport]_vars

(* the spellings of a format name in any letter case *)
TxtSpellings ==
    {<<a, b, c>> : a \in {"t", "T"}, b \in {"x", "X"}, c \in {"t", "T"}}

MdSpellings == {<<a, b>> : a \in {"m", "M"}, b \in {"d", "D"}}

PdfSpellings ==
    {<<a, b, c>> : a \in {"p", "P"}, b \in {"d", "D"}, c \in {"f", "F"}}

(* summary_<video_id>.<ext> when a video id is given, summary.<ext>
   otherwise; an empty video id counts as not given *)
ExpectedFilename(ext) ==
    IF export_args.video_id \in {None, ""}
    THEN <<"summary", ".", ext>>
    ELSE <<"summary", "_", export_args.video_id, ".", ext>>

ReturnedFile(ext, mime) ==
    /\ pc = "export_ret"
    /\ exported.returned
    /\ exported.raised = "none"
    /\ exported.filename = ExpectedFilename(ext)
    /\ exported.mime = mime

(* C18: export_summary accepts TXT, MD and PDF in any letter case and
   returns the file with the matching extension and mime type, named
   summary_<video_id>.<ext> with a video id and summary.<ext> without; any
   other format raises ValueError and produces no file. *)
C18_ExportByFormat ==
    pc \in {"export_ret", "export_raised"} =>
       IF export_args.format \in TxtSpellings
       THEN ReturnedFile("txt", "text/plain")
       ELSE IF export_args.format \in MdSpellings
       THEN ReturnedFile("md", "text/markdown")
       ELSE IF export_args.format \in PdfSpellings
       THEN ReturnedFile("pdf", "application/pdf")
       ELSE /\ pc = "export_raised"
            /\ exported.raised = "ValueError"
            /\ ~exported.returned
            /\ exported.bytes = <<>>
            /\ exported.filename = <<>>

(* a lower-case format with a video id has been exported *)
C18_Witness ==
    /\ pc = "export_ret"
    /\ export_args.format = <<"p", "d", "f">>
    /\ export_args.video_id = "dQw4w9WgXcQ"
    /\ exported.filename = <<"summary", "_", "dQw4w9WgXcQ", ".", "pdf">>
    /\ exported.mime = "application/pdf"


-----------------------------------------------------------------------------
(* app.py: the session state of main() over the reruns of the script.  One  *)
(* rerun is one action: Streamlit reruns main() for one widget interaction, *)
(* and at most one button returns True in a rerun                           *)

(* what fetch_transcript(video_id) returns with the default max_retries: the
   text of a fetched transcript, or one of the failures; an error whose
   message passes the XML test or the 'unavailable' test is reported by its
   own failure *)
FetchTranscriptResults ==
    {FetchSuccess(FullText(fetched)) : fetched \in FetchedTranscripts}
    \cup {InvalidResponseInner, TranscriptsDisabledFailure,
          VideoUnavailableFailure, NoTranscriptFailure}
    \cup {ErrorFetchingFailure(m) :
             m \in {e \in FetchMessages :
                       ~IsXmlError(e) /\ ~IsUnavailableError(e)}}

(* what get_transcript(url) returns *)
GetTranscriptResults(url) ==
    LET v == validate_youtube_url(url)
    IN  IF ~v.is_valid
        THEN {[NoGetResult EXCEPT !.returned = TRUE, !.message = v.message]}
        ELSE {[returned |-> TRUE, success |-> r.success, message |-> r.message,
               detail |-> r.detail, chars |-> r.chars,
               transcript |-> r.transcript, video_id |-> v.video_id] :
              r \in FetchTranscriptResults}

(* what summarize_transcript returns when the API key is configured *)
SummarizeResults ==
    {Success(s) : s \in Summaries}
    \cup {ClassifySingleShot(e) : e \in ErrorMessages}
    \cup {ChunkFailure(e) : e \in ErrorMessages}
    \cup {MetaFailure(e) : e \in ErrorMessages}

(* line 269: if st.session_state.transcript *)
TranscriptShown ==
    session.transcript.present /\ session.transcript.text # <<>>

(* the other functions are not running *)
AppOnly ==
    /\ transcript = <<>>
    /\ budget = MAX_CHUNK_CHARS
    /\ has_callback = FALSE
    /\ chunks = <<>>
    /\ i = 0
    /\ chunk_summaries = <<>>
    /\ trace = <<>>
    /\ result = NoResult
    /\ SecretsIdle /\ FetchIdle /\ ExportIdle

(* lines 200-208 and 221: a new session; api_key is what
   check_api_configuration finds, api_configured *)
InitApp ==
    /\ pc = "app"
    /\ api_key \in BOOLEAN
    /\ AppOnly
    /\ AppIdle

AppFrame ==
    /\ UNCHANGED <<summarizeVars, secretVars, fetchVars, exportVars>>

(* a rerun in which no button was clicked *)
Rerun ==
    /\ pc = "app"
    /\ \E url \in Urls :
          shown' = [action |-> "rerun", url |-> url, level |-> "none",
                    text |-> "", detail |-> <<>>]
    /\ UNCHANGED session
    /\ AppFrame

(* lines 251-253: Extract clicked, if not url *)
ExtractEmptyUrl ==
    /\ pc = "app"
    /\ shown' = [action |-> "extract", url |-> <<>>, level |-> "error",
                 text |-> "Please enter a YouTube URL.", detail |-> <<>>]
    /\ UNCHANGED session
    /\ AppFrame

(* variant of ExtractTranscript: line 261 is left out *)
ExtractKeepsSummary ==
    /\ pc = "app"
    /\ \E url \in Urls \ {<<>>} : \E r \in GetTranscriptResults(url) :
          /\ session' =
                [session EXCEPT
                    !.transcript = r.transcript,
                    !.video_id = r.video_id,
                    !.transcript_message =
                        [present |-> TRUE, message |-> r.message,
                         detail |-> r.detail, chars |-> r.chars]]
          /\ shown' = [action |-> "extract", url |-> url,
                       level |-> IF r.success THEN "success" ELSE "error",
                       text |-> r.message, detail |-> r.detail]
    /\ AppFrame

(* lines 254-266: Extract clicked with a URL typed *)
ExtractTranscript ==
    /\ pc = "app"
    /\ \E url \in Urls \ {<<>>} : \E r \in GetTranscriptResults(url) :
          /\ session' =
                [transcript |-> r.transcript,
                 video_id |-> r.video_id,
                 transcript_message |->
                     [present |-> TRUE, message |-> r.message,
                      detail |-> r.detail, chars |-> r.chars],
                 summary |-> NoSummary]
          /\ shown' = [action |-> "extract", url |-> url,
                       level |-> IF r.success THEN "success" ELSE "error",
                       text |-> r.message, detail |-> r.detail]
    /\ AppFrame

(* lines 313-329: Generate Summary clicked, summarize_transcript succeeds.
   The button exists when the transcript section is drawn and is enabled
   when the API key is configured *)
GenerateSummaryOk ==
    /\ pc = "app"
    /\ TranscriptShown
    /\ api_key
    /\ \E url \in Urls : \E r \in SummarizeResults :
          /\ r.success
          /\ session' = [session EXCEPT
                            !.summary = [set |-> TRUE,
                                         of |-> session.transcript,
                                         text |-> r.summary]]
          /\ shown' = [action |-> "generate", url |-> url, level |-> "success",
                       text |-> "Summary generated successfully!",
                       detail |-> <<>>]
    /\ AppFrame

(* variant of GenerateSummaryFailed: the failure resets the summary *)
GenerateFailedResetsSummary ==
    /\ pc = "app"
    /\ TranscriptShown
    /\ api_key
    /\ \E url \in Urls : \E r \in SummarizeResults :
          /\ ~r.success
          /\ shown' = [action |-> "generate", url |-> url, level |-> "error",
                       text |-> r.kind, detail |-> r.detail]
    /\ session' = [session EXCEPT !.summary = NoSummary]
    /\ AppFrame

(* lines 313-326 and 330-331: Generate Summary clicked, summarize_transcript
   fails *)
GenerateSummaryFailed ==
    /\ pc = "app"
    /\ TranscriptShown
    /\ api_key
    /\ \E url \in Urls : \E r \in SummarizeResults :
          /\ ~r.success
          /\ shown' = [action |-> "generate", url |-> url, level |-> "error",
                       text |-> r.kind, detail |-> r.detail]
    /\ UNCHANGED session
    /\ AppFrame

NextApp ==
    \/ Rerun
    \/ ExtractEmptyUrl
    \/ ExtractTranscript
    \/ GenerateSummaryOk
    \/ GenerateSummaryFailed

SpecApp == InitApp /\ [][NextApp]_vars

(* C26: a stored summary is never stale: whenever st.session_state.summary is
   set, a transcript is stored and the summary was produced from the
   transcript now stored; and after an Extract with a non-empty URL, whether
   it succeeded or not, no summary is stored *)
C26_SummaryNeverStale ==
    /\ session.summary.set =>
          /\ session.transcript.present
          /\ session.summary.of = session.transcript
    /\ (shown.action = "extract" /\ shown.url # <<>>) => ~session.summary.set

(* a summary is stored and it was generated for a transcript that a URL
   with blanks around it gave *)
C26_Witness ==
    /\ session.summary.set
    /\ session.summary.of.text = <<"a", " ", "b", " ", "c">>
    /\ session.video_id = "dQw4w9WgXcQ"
    /\ shown.action = "generate"

(* C27: a Generate Summary that fails changes nothing in the session state:
   transcript, video id, transcript message and a summary stored before keep
   their values; a Generate Summary changes the summary only when it
   succeeds; and an Extract with an empty URL changes nothing in the session
   state *)
C27_FailureChangesNothing ==
    [][ /\ (shown'.action = "generate" /\ shown'.level = "error")
              => session' = session
        /\ (shown'.action = "generate" /\ session'.summary # session.summary)
              => shown'.level = "success"
        /\ (shown'.action = "extract" /\ shown'.url = <<>>)
              => session' = session ]_vars

(* a Generate Summary has failed and the summary stored before is kept *)
C27_Witness ==
    /\ shown.action = "generate"
    /\ shown.level = "error"
    /\ session.summary.set
    /\ session.transcript_message.present


============================================================================
